---- MODULE Spec2Model ----
(***************************************************************************)
(* rsim: a RV64I(M) simulator with a multi-cycle sequential driver and a   *)
(* five-stage pipelined driver (src/src/main.rs), the per-instruction      *)
(* stage machine Inst::advance and the decoder (src/src/inst.rs), and the  *)
(* register file and address space (src/src/lib.rs).                       *)
(*                                                                         *)
(* A u64 is a little-endian tuple of 8 bytes (TLC's integers are 32 bits   *)
(* wide), an i32/u32 a tuple of 4 bytes; Option<T> is a tuple of length    *)
(* 0 (None) or 1 (Some).                                                   *)
(***************************************************************************)
EXTENDS Integers, Sequences, FiniteSets, TLC

(***************************************************************************)
(* Fixed-width integers.                                                   *)
(***************************************************************************)
Byte == 0..255

Pow2(n) == 2 ^ n

\* a function on 1..n as an explicit tuple
Tup(f) == f \o <<>>

\* A non-negative integer below 2^31 as a w-byte little-endian word.
WordOf(n, w) ==
  Tup([i \in 1..w |-> IF i <= 4 THEN (n \div Pow2(8 * (i - 1))) % 256 ELSE 0])

U64Of(n) == WordOf(n, 8)

Zero64 == U64Of(0)

One64 == U64Of(1)

RECURSIVE AddBytes(_, _, _, _)
AddBytes(a, b, i, c) ==
  IF i > Len(a) THEN <<>>
  ELSE LET s == a[i] + b[i] + c
       IN  <<s % 256>> \o AddBytes(a, b, i + 1, s \div 256)

\* wrapping_add on words of equal width
WAdd(a, b) == AddBytes(a, b, 1, 0)

WNot(a) == Tup([i \in 1..Len(a) |-> 255 - a[i]])

WNeg(a) == AddBytes(WNot(a), WordOf(0, Len(a)), 1, 1)

\* wrapping_sub
WSub(a, b) == AddBytes(a, WNot(b), 1, 1)

IsNeg(a) == a[Len(a)] >= 128

\* unsigned <
LtU(a, b) ==
  \E i \in 1..Len(a) : a[i] < b[i] /\ \A j \in (i + 1)..Len(a) : a[j] = b[j]

\* signed (two's complement) <
LtS(a, b) == IF IsNeg(a) # IsNeg(b) THEN IsNeg(a) ELSE LtU(a, b)

\* `as` casts: truncation, zero extension, sign extension
Trunc(a, w) == SubSeq(a, 1, w)

ZExt(a, w) == Tup([i \in 1..w |-> IF i <= Len(a) THEN a[i] ELSE 0])

SExt(a, w) ==
  Tup([i \in 1..w |-> IF i <= Len(a) THEN a[i] ELSE IF IsNeg(a) THEN 255 ELSE 0])

\* a signed integer of the decoder (i16, i32) `as i64 as u64`
I64Of(n) == IF n >= 0 THEN U64Of(n) ELSE WNot(U64Of(0 - (n + 1)))

I32Of(n) == Trunc(I64Of(n), 4)

\* the low bits of a word as a small number (masks such as `& 0b111111`)
LowBits(a, n) == a[1] % Pow2(n)

Bit(a, i) == (a[(i \div 8) + 1] \div Pow2(i % 8)) % 2

\* the w-byte word whose bit i is f[i]
FromBits(f, w) ==
  Tup([j \in 1..w |->
     f[8 * (j - 1)] + 2 * f[8 * (j - 1) + 1] + 4 * f[8 * (j - 1) + 2]
     + 8 * f[8 * (j - 1) + 3] + 16 * f[8 * (j - 1) + 4] + 32 * f[8 * (j - 1) + 5]
     + 64 * f[8 * (j - 1) + 6] + 128 * f[8 * (j - 1) + 7]])

NBits(a) == 8 * Len(a)

WAnd(a, b) == FromBits([i \in 0..(NBits(a) - 1) |-> Bit(a, i) * Bit(b, i)], Len(a))

WOr(a, b) ==
  FromBits([i \in 0..(NBits(a) - 1) |-> IF Bit(a, i) + Bit(b, i) > 0 THEN 1 ELSE 0], Len(a))

WXor(a, b) ==
  FromBits([i \in 0..(NBits(a) - 1) |-> (Bit(a, i) + Bit(b, i)) % 2], Len(a))

\* wrapping_shl / wrapping_shr: the shift amount is taken modulo the width
WShl(a, k) ==
  LET s == k % NBits(a)
  IN  FromBits([i \in 0..(NBits(a) - 1) |-> IF i >= s THEN Bit(a, i - s) ELSE 0], Len(a))

WShrU(a, k) ==
  LET s == k % NBits(a)
  IN  FromBits([i \in 0..(NBits(a) - 1) |->
                  IF i + s < NBits(a) THEN Bit(a, i + s) ELSE 0], Len(a))

WShrS(a, k) ==
  LET s == k % NBits(a)
  IN  FromBits([i \in 0..(NBits(a) - 1) |->
                  IF i + s < NBits(a) THEN Bit(a, i + s) ELSE Bit(a, NBits(a) - 1)],
               Len(a))

\* column k (1-based) of the schoolbook product of two byte strings
RECURSIVE ColSum(_, _, _, _)
ColSum(a, b, k, i) ==
  IF i > Len(a) THEN 0
  ELSE (IF k + 1 - i >= 1 /\ k + 1 - i <= Len(b) THEN a[i] * b[k + 1 - i] ELSE 0)
       + ColSum(a, b, k, i + 1)

RECURSIVE MulBytes(_, _, _, _, _)
MulBytes(a, b, k, c, w) ==
  IF k > w THEN <<>>
  ELSE LET s == ColSum(a, b, k, 1) + c
       IN  <<s % 256>> \o MulBytes(a, b, k + 1, s \div 256, w)

\* wrapping_mul: the low Len(a) bytes of the product
WMul(a, b) == MulBytes(a, b, 1, 0, Len(a))

\* Long division of unsigned words, one byte of the dividend at a time, most
\* significant first. Digit is the largest t < 256 with d * t <= r.
RECURSIVE Digit(_, _, _, _)
Digit(r, d, bit, acc) ==
  IF bit < 0 THEN acc
  ELSE IF LtU(r, MulBytes(d, <<acc + Pow2(bit)>>, 1, 0, Len(d)))
       THEN Digit(r, d, bit - 1, acc)
       ELSE Digit(r, d, bit - 1, acc + Pow2(bit))

\* q: the quotient's bytes so far; r: the remainder so far (r < d)
RECURSIVE DivBytes(_, _, _, _, _)
DivBytes(n, d, i, q, r) ==
  IF i < 1 THEN <<q, r>>
  ELSE LET r1 == <<n[i]>> \o SubSeq(r, 1, Len(r) - 1)
           dg == Digit(r1, d, 7, 0)
       IN  IF dg = 0
           THEN DivBytes(n, d, i - 1, <<0>> \o q, r1)
           ELSE DivBytes(n, d, i - 1, <<dg>> \o q,
                         WSub(r1, MulBytes(d, <<dg>>, 1, 0, Len(d))))

\* <<n / d, n % d>> for d # 0, on words one byte wider than n
UDivRem(n, d) ==
  DivBytes(n, ZExt(d, Len(n) + 1), Len(n), <<>>, WordOf(0, Len(n) + 1))

WAbs(a) == IF IsNeg(a) THEN WNeg(a) ELSE a

\* iN::wrapping_div (truncating; MIN / -1 wraps to MIN), d # 0
WDivS(a, b) ==
  LET q == Trunc(UDivRem(WAbs(a), WAbs(b))[1], Len(a))
  IN  IF IsNeg(a) # IsNeg(b) THEN WNeg(q) ELSE q

\* iN::wrapping_rem (sign of the dividend; MIN % -1 is 0), d # 0
WRemS(a, b) ==
  LET r == Trunc(UDivRem(WAbs(a), WAbs(b))[2], Len(a))
  IN  IF IsNeg(a) THEN WNeg(r) ELSE r

(***************************************************************************)
(* InstCode and the decoder (inst.rs). An InstCode is a record: op is the  *)
(* variant's name, a, b, c are its fields in the order of the enum         *)
(* (Add(rd, rs1, rs2), Sb(rs1, rs2, imm), Jal(rd, imm), ...), raw is the   *)
(* payload of Unknown, UnknownC and IllegalCf as <<first, second>>.        *)
(***************************************************************************)
Code3(op, a, b, c) == [op |-> op, a |-> a, b |-> b, c |-> c, raw |-> <<>>]

Code2(op, a, b) == Code3(op, a, b, 0)

Code0(op) == Code3(op, 0, 0, 0)

UnknownCode(first, second) ==
  [op |-> "Unknown", a |-> 0, b |-> 0, c |-> 0, raw |-> <<first, second>>]

UnknownC(raw) == [op |-> "UnknownC", a |-> 0, b |-> 0, c |-> 0, raw |-> <<raw>>]

\* quark::Signs::sign_extend: the value of the low `bits` bits of v as a
\* two's complement number (sign_extend(n) on an iN drops its n high bits)
SignExtend(v, bits) == IF v >= Pow2(bits - 1) THEN v - Pow2(bits) ELSE v

\* RegID::decode
RegDecode(encoding) == IF encoding \in 0..31 THEN encoding ELSE 0

\* the fields of a 32-bit word given as two halfwords: raw = second:first
F_opcode(first) == first % 128

F_rd(first) == (first \div 128) % 32

F_func3(first) == (first \div 4096) % 8

F_rs1(first, second) == (first \div 32768) + 2 * (second % 16)

F_rs2(second) == (second \div 16) % 32

F_func7(second) == second \div 512

F_imm12(second) == second \div 16

parse_normal_r(first, second) ==
  LET opcode == F_opcode(first)
      rd == RegDecode(F_rd(first))
      func3 == F_func3(first)
      rs1 == RegDecode(F_rs1(first, second))
      rs2 == RegDecode(F_rs2(second))
      func7 == F_func7(second)
      R(op) == Code3(op, rd, rs1, rs2)
  IN  IF opcode = 51
      THEN CASE func3 = 0 /\ func7 = 0 -> R("Add")
             [] func3 = 0 /\ func7 = 1 -> R("Mul")
             [] func3 = 0 /\ func7 = 32 -> R("Sub")
             [] func3 = 1 /\ func7 = 0 -> R("Sll")
             [] func3 = 1 /\ func7 = 1 -> R("Mulh")
             [] func3 = 2 /\ func7 = 0 -> R("Slt")
             [] func3 = 3 /\ func7 = 0 -> R("Sltu")
             [] func3 = 4 /\ func7 = 0 -> R("Xor")
             [] func3 = 4 /\ func7 = 1 -> R("Div")
             [] func3 = 5 /\ func7 = 0 -> R("Srl")
             [] func3 = 5 /\ func7 = 32 -> R("Sra")
             [] func3 = 6 /\ func7 = 0 -> R("Or")
             [] func3 = 6 /\ func7 = 1 -> R("Rem")
             [] func3 = 7 /\ func7 = 0 -> R("And")
             [] OTHER -> UnknownCode(first, second)
      ELSE \* 0x3B
           CASE func3 = 0 /\ func7 = 0 -> R("Addw")
             [] func3 = 0 /\ func7 = 32 -> R("Subw")
             [] func3 = 0 /\ func7 = 1 -> R("Mulw")
             [] func3 = 1 /\ func7 = 0 -> R("Sllw")
             [] func3 = 5 /\ func7 = 0 -> R("Srlw")
             [] func3 = 5 /\ func7 = 32 -> R("Sraw")
             [] func3 = 4 /\ func7 = 1 -> R("Divw")
             [] func3 = 6 /\ func7 = 1 -> R("Remw")
             [] OTHER -> UnknownCode(first, second)

\* `imm & 0b111110000000` and `imm & 0b111111100000` on the 12-bit immediate
Mask7to11(u12) == (u12 \div 128) * 128

Mask5to11(u12) == (u12 \div 32) * 32

parse_normal_i(first, second) ==
  LET opcode == F_opcode(first)
      rd == RegDecode(F_rd(first))
      func3 == F_func3(first)
      rs1 == RegDecode(F_rs1(first, second))
      u12 == F_imm12(second)
      imm == SignExtend(u12, 12)
      csr == u12
      I(op) == Code3(op, rd, rs1, imm)
      Unk == UnknownCode(first, second)
  IN  CASE opcode = 3 ->
             (CASE func3 = 0 -> I("Lb")
                [] func3 = 1 -> I("Lh")
                [] func3 = 2 -> I("Lw")
                [] func3 = 3 -> I("Ld")
                [] func3 = 4 -> I("Lbu")
                [] func3 = 5 -> I("Lhu")
                [] func3 = 6 -> I("Lwu")
                [] OTHER -> Unk)
        [] opcode = 19 ->
             (CASE func3 = 0 -> I("Addi")
                [] func3 = 1 /\ Mask7to11(u12) = 0 -> I("Slli")
                [] func3 = 2 -> I("Slti")
                [] func3 = 3 -> I("Sltiu")
                [] func3 = 4 -> I("Xori")
                [] func3 = 5 /\ Mask7to11(u12) = 0 -> I("Srli")
                [] func3 = 5 /\ Mask7to11(u12) = 1024 -> I("Srai")
                [] func3 = 6 -> I("Ori")
                [] func3 = 7 -> I("Andi")
                [] OTHER -> Unk)
        [] opcode = 27 ->
             (CASE func3 = 0 -> I("Addiw")
                [] func3 = 1 /\ Mask5to11(u12) = 0 -> I("Slliw")
                [] func3 = 5 /\ Mask5to11(u12) = 0 -> I("Srliw")
                [] func3 = 5 /\ Mask5to11(u12) = 1024 -> I("Sraiw")
                [] OTHER -> Unk)
        [] opcode = 103 ->
             (CASE func3 = 0 -> I("Jalr")
                [] OTHER -> Unk)
        [] opcode = 115 ->
             (CASE func3 = 0 ->
                     (CASE imm = 0 -> Code0("Ecall")
                        [] imm = 1 -> Code0("Ebreak")
                        [] imm = 2 -> Code0("Uret")
                        [] imm = 258 -> Code0("Sret")
                        [] imm = 770 -> Code0("Mret")
                        [] imm = 261 -> Code0("Wfi")
                        [] OTHER ->
                             IF Mask5to11(u12) = 288
                             THEN Code2("SfenceVma", rs1, RegDecode(F_rs2(second)))
                             ELSE Unk)
                [] func3 = 1 -> Code3("Csrrw", rd, rs1, csr)
                [] func3 = 2 -> Code3("Csrrs", rd, rs1, csr)
                [] func3 = 3 -> Code3("Csrrc", rd, rs1, csr)
                [] func3 = 5 -> Code3("Csrrwi", rd, csr, F_rs1(first, second))
                [] func3 = 6 -> Code3("Csrrsi", rd, csr, F_rs1(first, second))
                [] func3 = 7 -> Code3("Csrrci", rd, csr, F_rs1(first, second))
                [] OTHER -> Unk)

parse_normal_s(first, second) ==
  LET func3 == F_func3(first)
      rs1 == RegDecode(F_rs1(first, second))
      rs2 == RegDecode(F_rs2(second))
      imm1 == (first \div 128) % 32
      imm2 == second \div 512
      imm == SignExtend(imm2 * 32 + imm1, 12)
  IN  CASE func3 = 0 -> Code3("Sb", rs1, rs2, imm)
        [] func3 = 1 -> Code3("Sh", rs1, rs2, imm)
        [] func3 = 2 -> Code3("Sw", rs1, rs2, imm)
        [] func3 = 3 -> Code3("Sd", rs1, rs2, imm)
        [] OTHER -> UnknownCode(first, second)

parse_normal_sb(first, second) ==
  LET func3 == F_func3(first)
      rs1 == RegDecode(F_rs1(first, second))
      rs2 == RegDecode(F_rs2(second))
      imm1 == (first \div 256) % 16
      imm2 == (second \div 512) % 64
      imm3 == (first \div 128) % 2
      imm4 == second \div 32768
      imm == SignExtend(imm4 * 4096 + imm3 * 2048 + imm2 * 32 + imm1 * 2, 13)
  IN  CASE func3 = 0 -> Code3("Beq", rs1, rs2, imm)
        [] func3 = 1 -> Code3("Bne", rs1, rs2, imm)
        [] func3 = 4 -> Code3("Blt", rs1, rs2, imm)
        [] func3 = 5 -> Code3("Bge", rs1, rs2, imm)
        [] func3 = 6 -> Code3("Bltu", rs1, rs2, imm)
        [] func3 = 7 -> Code3("Bgeu", rs1, rs2, imm)
        [] OTHER -> UnknownCode(first, second)

parse_normal_u(first, second) ==
  LET opcode == F_opcode(first)
      rd == RegDecode(F_rd(first))
      \* (raw & 0xFFFFF000) as i32
      imm == SignExtend(second, 16) * 65536 + (first \div 4096) * 4096
  IN  IF opcode = 23 THEN Code2("Auipc", rd, imm) ELSE Code2("Lui", rd, imm)

parse_normal_uj(first, second) ==
  LET rd == RegDecode(F_rd(first))
      imm1 == (second \div 32) % 1024
      imm2 == (second \div 16) % 2
      imm3 == (first \div 4096) + 16 * (second % 16)
      imm4 == second \div 32768
      imm == SignExtend(imm4 * 1048576 + imm3 * 4096 + imm2 * 2048 + imm1 * 2, 21)
  IN  Code2("Jal", rd, imm)

\* Unfinished in the source: every compressed encoding is UnknownC
parse_compressed(raw) == UnknownC(raw)

\* InstCode::parse: <<InstCode, length in bits>>
parse(first, second) ==
  LET is_compressed == first % 4 # 3
      is_prolonged == first % 32 = 31
      opcode == F_opcode(first)
  IN  IF is_prolonged THEN <<Code0("IllegalProlonged"), 32>>
      ELSE IF is_compressed THEN <<parse_compressed(first), 16>>
      ELSE CASE opcode \in {51, 59} -> <<parse_normal_r(first, second), 32>>
             [] opcode \in {3, 19, 27, 103, 115} -> <<parse_normal_i(first, second), 32>>
             [] opcode = 35 -> <<parse_normal_s(first, second), 32>>
             [] opcode = 99 -> <<parse_normal_sb(first, second), 32>>
             [] opcode \in {23, 55} -> <<parse_normal_u(first, second), 32>>
             [] opcode = 111 -> <<parse_normal_uj(first, second), 32>>
             [] opcode = 15 ->
                  LET func3 == F_func3(first)
                      succ == (second \div 16) % 16
                      pred == (second \div 256) % 16
                  IN  CASE func3 = 0 -> <<Code2("Fence", pred, succ), 32>>
                        [] func3 = 1 /\ pred = 0 /\ succ = 0 -> <<Code0("FenceI"), 32>>
                        [] OTHER -> <<UnknownCode(first, second), 32>>
             [] OTHER -> <<UnknownCode(first, second), 32>>

(***************************************************************************)
(* Register file and address space (lib.rs).                               *)
(***************************************************************************)
None == <<>>

Some(x) == <<x>>

\* HLT_ADDR = 0xFFFFFFFFFFFFFFFE
HLT_ADDR == <<254, 255, 255, 255, 255, 255, 255, 255>>

X0 == 0

X10 == 10

X11 == 11

X17 == 17

\* Register::new
NewRegister(enable_forwarding) ==
  [value |-> Zero64, write_cnt |-> 0, forward_values |-> None,
   enable_forwarding |-> enable_forwarding]

\* a faulty write, which does not neglect x0: C10 depends on the test in write
WriteAnyRegister(regs, id, val) == [regs EXCEPT ![id].value = val]

\* Register::write on register id of the file regs
RegWrite(regs, id, val) ==
  IF id # X0 THEN [regs EXCEPT ![id].value = val] ELSE regs

\* a faulty read, which hands out the committed value whatever the counter is:
\* C4 depends on read refusing a register that is locked
ReadIgnoringLocks(regs, id) ==
  IF id = X0 THEN Some(Zero64) ELSE Some(regs[id].value)

\* read that never takes a forwarded value
ReadWithoutForwarding(regs, id) ==
  IF id = X0 THEN Some(Zero64)
  ELSE IF regs[id].write_cnt = 0 THEN Some(regs[id].value)
  ELSE None

\* Register::read: Option<u64>
RegRead(regs, id) ==
  IF id = X0 THEN Some(Zero64)
  ELSE IF regs[id].write_cnt = 0 THEN Some(regs[id].value)
  ELSE IF regs[id].enable_forwarding THEN regs[id].forward_values
  ELSE None

\* a faulty lock, which counts no writer
LockNothing(regs, id) == regs

\* a faulty lock, which counts the writer twice
LockTwice(regs, id) == [regs EXCEPT ![id].write_cnt = @ + 2]

\* Register::lock
RegLock(regs, id) == [regs EXCEPT ![id].write_cnt = @ + 1]

\* Register::unlock panics when the counter is 0 (checked_sub(..).expect)
UnlockPanics(regs, id) == regs[id].write_cnt = 0

\* a faulty unlock, which leaves the lock on
KeepLock(regs, id) == regs

\* a faulty unlock, which takes two locks off: C8 depends on unlock undoing
\* the one lock of Decode
UnlockTwice(regs, id) == [regs EXCEPT ![id].write_cnt = @ - 2]

RegUnlock(regs, id) == [regs EXCEPT ![id].write_cnt = @ - 1]

\* Register::forward
RegForward(regs, id, val) ==
  IF regs[id].enable_forwarding
  THEN [regs EXCEPT ![id].forward_values = Some(val)]
  ELSE regs

\* update_forward that clears nothing
KeepForwarded(regs) == regs

\* RegisterFile::update_forward
UpdateForwardAll(regs) ==
  [id \in DOMAIN regs |->
     IF ~regs[id].enable_forwarding THEN regs[id]
     ELSE [regs[id] EXCEPT !.forward_values = None]]

\* a word below 2^31 as a number (an offset into a VMA)
NatOf(a) == a[1] + 256 * a[2] + 65536 * a[3] + 16777216 * a[4]

\* v.lower_bound <= addr && v.lower_bound + v.size > addr
InVma(v, addr) ==
  /\ ~LtU(addr, v.lower_bound)
  /\ LtU(addr, WAdd(v.lower_bound, v.size))

\* vmas.iter().find(..): the index of the first VMA that holds addr, or 0
FindVma(vmas, addr) ==
  IF \E i \in 1..Len(vmas) : InVma(vmas[i], addr)
  THEN CHOOSE i \in 1..Len(vmas) :
         InVma(vmas[i], addr) /\ \A j \in 1..(i - 1) : ~InVma(vmas[j], addr)
  ELSE 0

MinU(a, b) == IF LtU(a, b) THEN a ELSE b

\* a load that reports no remaining length
LoadWithoutRemaining(vmas, addr, sz, execute) ==
  LET k == FindVma(vmas, addr)
      start == NatOf(WSub(addr, vmas[k].lower_bound))
      end == IF start + sz < Len(vmas[k].memory) THEN start + sz
             ELSE Len(vmas[k].memory)
  IN  IF k = 0 \/ ~vmas[k].readable THEN None
      ELSE Some(<<SubSeq(vmas[k].memory, start + 1, end), 0>>)

\* Program::mem_load: None or Some(<<data, remaining_length>>)
mem_load(vmas, addr, sz, execute) ==
  LET slice(vma, start, end) ==
        Some(<<SubSeq(vma.memory, start + 1, end), sz - (end - start)>>)
      found(vma) ==
        IF ~vma.readable /\ (~execute \/ vma.executable) THEN None
        ELSE slice(vma,
                   NatOf(WSub(addr, vma.lower_bound)),
                   NatOf(WSub(MinU(WAdd(vma.lower_bound, vma.size),
                                   WAdd(addr, U64Of(sz))),
                              vma.lower_bound)))
      at(k) == IF k = 0 THEN None ELSE found(vmas[k])
  IN  at(FindVma(vmas, addr))

\* Program::mem_store: the loop from position cur on; <<stored, vmas>>
RECURSIVE StoreFrom(_, _, _, _)
StoreFrom(vmas, addr, data, cur) ==
  LET copy(k, vma, start, end) ==
        StoreFrom([vmas EXCEPT ![k].memory =
                     Tup([i \in 1..Len(vma.memory) |->
                            IF i > start /\ i <= end
                            THEN data[cur + (i - start)]
                            ELSE vma.memory[i]])],
                  addr, data, cur + (end - start))
      found(k, vma) ==
        IF ~vma.writeble THEN <<FALSE, vmas>>
        ELSE copy(k, vma,
                  NatOf(WSub(WAdd(addr, U64Of(cur)), vma.lower_bound)),
                  NatOf(WSub(MinU(WAdd(vma.lower_bound, vma.size),
                                  WAdd(addr, U64Of(Len(data)))),
                             vma.lower_bound)))
      at(k) == IF k = 0 THEN <<FALSE, vmas>> ELSE found(k, vmas[k])
  IN  IF cur >= Len(data) THEN <<TRUE, vmas>>
      ELSE at(FindVma(vmas, WAdd(addr, U64Of(cur))))

\* a store that reports success and writes nothing
StoreNothing(vmas, addr, data) == <<TRUE, vmas>>

mem_store(vmas, addr, data) == StoreFrom(vmas, addr, data, 0)

(***************************************************************************)
(* Inst and Inst::advance (inst.rs). The result of advance is a record:    *)
(* tag "Ok" with the instruction, tag "Err" with the next PC, or tag       *)
(* "Panic" (unreachable!(), expect() or a division panic); prog is the     *)
(* Program as advance leaves it.                                           *)
(***************************************************************************)
\* Inst::new
NewInst ==
  [code |-> [op |-> "Unknown", a |-> 0, b |-> 0, c |-> 0, raw |-> <<0, 0>>],
   pc |-> Zero64, next_pc |-> Zero64, stage |-> "Fetch", progress |-> 0,
   val1 |-> Zero64, val2 |-> Zero64, val_e |-> Zero64, val_m |-> Zero64]

Ok(inst, prog) ==
  [tag |-> "Ok", inst |-> inst, pc |-> Zero64, prog |-> prog, out |-> <<>>]

Err(pc, inst, prog) ==
  [tag |-> "Err", inst |-> inst, pc |-> pc, prog |-> prog, out |-> <<>>]

Panic(inst, prog) ==
  [tag |-> "Panic", inst |-> inst, pc |-> Zero64, prog |-> prog, out |-> <<>>]

\* a line printed on the way: [Warning] or [Debug] with its text
Printed(kind, text, res) == [res EXCEPT !.out = <<<<kind, text>>>>]

ROps ==
  {"Add", "Mul", "Sub", "Sll", "Mulh", "Slt", "Sltu", "Xor", "Div", "Srl", "Sra",
   "Or", "Rem", "And", "Addw", "Subw", "Mulw", "Divw", "Sllw", "Srlw", "Sraw", "Remw"}

LoadOps == {"Lb", "Lbu", "Lh", "Lhu", "Lw", "Lwu", "Ld"}

IOps ==
  LoadOps \cup
  {"Addi", "Slli", "Slliw", "Slti", "Sltiu", "Xori", "Srli", "Srliw", "Srai",
   "Sraiw", "Ori", "Andi", "Addiw", "Jalr"}

StoreOps == {"Sb", "Sh", "Sw", "Sd"}

BranchOps == {"Beq", "Bne", "Blt", "Bge", "Bltu", "Bgeu"}

UOps == {"Auipc", "Lui", "Jal"}

MulOps == {"Mul", "Mulh"}

DivOps == {"Div", "Divw", "Rem", "Remw"}

\* a Fetch that refuses nothing
NoIllegalOps == {}

\* the operations Fetch refuses with a warning
FetchIllegalOps ==
  {"Unknown", "IllegalCf", "UnknownC", "IllegalProlonged", "Fence", "FenceI",
   "Csrrw", "Csrrs", "Csrrc", "Csrrwi", "Csrrsi", "Csrrci", "Ebreak", "Uret",
   "Sret", "Mret", "Wfi", "SfenceVma"}

\* the operations with a destination register (their first field)
HasRd(code) == code.op \in ROps \cup IOps \cup UOps

FetchWarning(op) ==
  CASE op = "Unknown" -> "Unknown instruction"
    [] op = "IllegalCf" -> "Floating point compressed instruction not supported"
    [] op = "UnknownC" -> "Unknown compressed instruction"
    [] op = "IllegalProlonged" -> "Prolonged instruction not supported"
    [] OTHER -> "is not currently supported"

\* Stage::Fetch
AdvFetch(inst, prog) ==
  LET parsed(code, bits) ==
        IF code.op \in FetchIllegalOps
        THEN Printed("Warning", FetchWarning(code.op),
                     Err(HLT_ADDR,
                         [inst EXCEPT !.code = code,
                                      !.pc = prog.program_counter,
                                      !.next_pc = WAdd(prog.program_counter,
                                                       U64Of(bits \div 8))],
                         prog))
        ELSE Ok([inst EXCEPT !.code = code,
                             !.pc = prog.program_counter,
                             !.next_pc = WAdd(prog.program_counter,
                                              U64Of(bits \div 8)),
                             !.stage = "Decode"],
                prog)
      decoded(p) == parsed(p[1], p[2])
      fetched(bytes) ==
        decoded(parse(bytes[1] + 256 * bytes[2], bytes[3] + 256 * bytes[4]))
      loaded(ld) ==
        IF ld = None
        THEN Printed("Warning", "Cannot fetch", Err(HLT_ADDR, inst, prog))
        ELSE IF ld[1][2] # 0
        THEN Printed("Warning", "Fetching across VMAs", Err(HLT_ADDR, inst, prog))
        ELSE fetched(ld[1][1])
  IN  IF prog.program_counter = HLT_ADDR THEN Err(HLT_ADDR, inst, prog)
      ELSE loaded(mem_load(prog.vmas, prog.program_counter, 4, TRUE))

\* Stage::Decode
AdvDecode(inst, prog) ==
  LET code == inst.code
      regs == prog.registers
      Locked(id) == [prog EXCEPT !.registers = RegLock(regs, id)]
  IN  CASE code.op \in ROps ->
             LET r1 == RegRead(regs, code.b)
                 r2 == RegRead(regs, code.c)
             IN  IF r1 = None THEN Ok(inst, prog)
                 ELSE IF r2 = None THEN Ok(inst, prog)
                 ELSE Ok([inst EXCEPT !.val1 = r1[1], !.val2 = r2[1],
                                      !.stage = "Execute"], Locked(code.a))
        [] code.op \in IOps ->
             LET r1 == RegRead(regs, code.b)
             IN  IF r1 = None THEN Ok(inst, prog)
                 ELSE Ok([inst EXCEPT !.val1 = r1[1], !.stage = "Execute"],
                         Locked(code.a))
        [] code.op = "Ecall" ->
             LET r1 == RegRead(regs, X10)
                 r2 == RegRead(regs, X11)
                 r3 == RegRead(regs, X17)
             IN  IF r1 = None THEN Ok(inst, prog)
                 ELSE IF r2 = None THEN Ok(inst, prog)
                 ELSE IF r3 = None THEN Ok(inst, prog)
                 ELSE Ok([inst EXCEPT !.val1 = r1[1], !.val2 = r2[1],
                                      !.val_e = r3[1], !.stage = "Execute"], prog)
        [] code.op \in StoreOps \cup BranchOps ->
             LET r1 == RegRead(regs, code.a)
                 r2 == RegRead(regs, code.b)
             IN  IF r1 = None THEN Ok(inst, prog)
                 ELSE IF r2 = None THEN Ok(inst, prog)
                 ELSE Ok([inst EXCEPT !.val1 = r1[1], !.val2 = r2[1],
                                      !.stage = "Execute"], prog)
        [] code.op \in UOps ->
             Ok([inst EXCEPT !.stage = "Execute"], Locked(code.a))
        [] OTHER -> Panic(inst, prog)

Bool64(b) == IF b THEN One64 ELSE Zero64

\* i32 arithmetic on the low halves, then `as i64 as u64`
W32(v) == Trunc(v, 4)

\* the 128-bit product of val1 and val2 as `u64 as i128` operands, >> 64
MulhValue(v1, v2) == SubSeq(MulBytes(v1, v2, 1, 0, 16), 9, 16)

\* val_e of the operations that compute in one Execute step (after the wait of
\* the multi-cycle ones)
AluValue(inst) ==
  LET op == inst.code.op
      v1 == inst.val1
      v2 == inst.val2
      imm == inst.code.c
  IN  CASE op = "Add" -> WAdd(v1, v2)
        [] op = "Mul" -> WMul(v1, v2)
        [] op = "Sub" -> WSub(v1, v2)
        [] op = "Sll" -> WShl(v1, LowBits(v2, 6))
        [] op = "Mulh" -> MulhValue(v1, v2)
        [] op = "Slt" -> Bool64(LtS(v1, v2))
        [] op = "Sltu" -> Bool64(LtU(v1, v2))
        [] op = "Xor" -> WXor(v1, v2)
        [] op = "Div" -> WDivS(v1, v2)
        [] op = "Srl" -> WShrU(v1, LowBits(v2, 6))
        [] op = "Sra" -> WShrS(v1, LowBits(v2, 6))
        [] op = "Or" -> WOr(v1, v2)
        [] op = "Rem" -> WRemS(v1, v2)
        [] op = "And" -> WAnd(v1, v2)
        [] op = "Addw" -> SExt(WAdd(W32(v1), W32(v2)), 8)
        [] op = "Subw" -> SExt(WSub(W32(v1), W32(v2)), 8)
        [] op = "Mulw" -> SExt(WMul(W32(v1), W32(v2)), 8)
        [] op = "Divw" -> SExt(WDivS(W32(v1), W32(v2)), 8)
        [] op = "Sllw" -> SExt(WShl(W32(v1), LowBits(v2, 5)), 8)
        [] op = "Srlw" -> SExt(WShl(W32(v1), LowBits(v2, 5)), 8)
        [] op = "Sraw" -> SExt(WShl(W32(v1), LowBits(v2, 5)), 8)
        [] op = "Remw" -> SExt(WRemS(W32(v1), W32(v2)), 8)
        [] op = "Addi" -> WAdd(v1, I64Of(imm))
        [] op = "Slli" -> WShl(v1, imm)
        [] op = "Slliw" -> SExt(WShl(W32(v1), imm), 8)
        [] op = "Slti" -> Bool64(LtS(v1, I64Of(imm)))
        [] op = "Sltiu" -> Bool64(LtU(v1, I64Of(imm)))
        [] op = "Xori" -> WXor(v1, I64Of(imm))
        [] op = "Srli" -> WShrU(v1, imm)
        [] op = "Srliw" -> SExt(WShrU(W32(v1), imm), 8)
        [] op = "Srai" -> WShrS(v1, imm)
        [] op = "Sraiw" -> SExt(WShrS(W32(v1), imm), 8)
        [] op = "Ori" -> WOr(v1, I64Of(imm))
        [] op = "Andi" -> WAnd(v1, I64Of(imm))
        [] op = "Addiw" -> SExt(WAdd(W32(v1), I32Of(imm)), 8)
        [] op = "Auipc" -> WAdd(inst.pc, I64Of(inst.code.b))
        [] op = "Lui" -> I64Of(inst.code.b)

\* the arm shared by the operations that set val_e, forward it and go to Memory
ExecForward(inst, prog) ==
  LET forwarded(ve) ==
        Ok([inst EXCEPT !.val_e = ve, !.stage = "Memory"],
           [prog EXCEPT !.registers = RegForward(prog.registers, inst.code.a, ve)])
  IN  forwarded(AluValue(inst))

\* no a7 value refused by its own arm
NoHaltCodes == {}

\* the a7 values Execute refuses for an ecall
EcallHaltCodes == {57, 80, 62, 214, 64, 63, 93}

IsSmall(v, n) == v = U64Of(n)

BranchTaken(op, v1, v2) ==
  CASE op = "Beq" -> v1 = v2
    [] op = "Bne" -> v1 # v2
    [] op = "Blt" -> LtS(v1, v2)
    [] op = "Bltu" -> LtU(v1, v2)
    [] op = "Bge" -> ~LtS(v1, v2)
    [] op = "Bgeu" -> ~LtU(v1, v2)

\* Stage::Execute
AdvExecute(inst, prog) ==
  LET code == inst.code
      op == code.op
      regs == prog.registers
      \* the arms that end in computing val_e: a multiplication or a division
      \* whose wait is over, and the single-cycle register operations
      computes ==
        \/ op \in MulOps /\ inst.progress >= 1
        \/ /\ op \in DivOps /\ inst.val2 # Zero64 /\ inst.progress >= 39
           /\ ~(op \in {"Divw", "Remw"} /\ W32(inst.val2) = WordOf(0, 4))
        \/ op \in (ROps \cup IOps \cup UOps) \ (MulOps \cup DivOps \cup LoadOps
                                                 \cup {"Jalr", "Jal"})
  IN  CASE computes -> ExecForward(inst, prog)
        [] ~computes /\ op \in MulOps ->
             Ok([inst EXCEPT !.progress = @ + 1], prog)
        [] ~computes /\ op \in DivOps ->
             IF inst.val2 = Zero64
             THEN IF UnlockPanics(regs, code.a) THEN Panic(inst, prog)
                  ELSE Printed("Warning",
                               IF op \in {"Div", "Divw"} THEN "Divide by 0 Execption"
                               ELSE "Reminder by 0 Execption",
                               Err(HLT_ADDR, inst,
                                   [prog EXCEPT !.registers =
                                                  RegUnlock(regs, code.a)]))
             ELSE IF inst.progress < 39
             THEN Ok([inst EXCEPT !.progress = @ + 1], prog)
             ELSE Panic(inst, prog) \* i32::wrapping_div / wrapping_rem by zero
        [] op \in LoadOps \cup StoreOps ->
             Ok([inst EXCEPT !.val_e = WAdd(inst.val1, I64Of(code.c)),
                             !.stage = "Memory"], prog)
        [] op = "Jalr" ->
             LET ve == WAdd(inst.pc, U64Of(4))
                 t == WAdd(inst.val1, I64Of(code.c))
             IN  Ok([inst EXCEPT !.val_e = ve,
                                 !.next_pc = [t EXCEPT ![1] = (@ \div 2) * 2],
                                 !.stage = "Memory"],
                    [prog EXCEPT !.registers = RegForward(regs, code.a, ve)])
        [] op = "Jal" ->
             LET ve == WAdd(inst.pc, U64Of(4))
             IN  Ok([inst EXCEPT !.val_e = ve,
                                 !.next_pc = WAdd(inst.pc, I64Of(code.b)),
                                 !.stage = "Memory"],
                    [prog EXCEPT !.registers = RegForward(regs, code.a, ve)])
        [] op = "Ecall" ->
             IF IsSmall(inst.val_e, 93)
             THEN Printed("Debug", "ecall is exit(), exiting...",
                          Err(HLT_ADDR, inst, prog))
             ELSE IF \E n \in EcallHaltCodes : IsSmall(inst.val_e, n)
             THEN Printed("Warning", "ecall not simulated", Err(HLT_ADDR, inst, prog))
             ELSE IF IsSmall(inst.val1, 10)
             THEN Printed("Debug", "ecall (a0=10), exiting...",
                          Err(HLT_ADDR, inst, prog))
             ELSE IF IsSmall(inst.val1, 1)
             THEN Printed("Debug", "ecall (a0=1), print a1",
                          Ok([inst EXCEPT !.stage = "Memory"], prog))
             ELSE Printed("Warning", "ecall is unknown function, aborting...",
                          Err(HLT_ADDR, inst, prog))
        [] op \in BranchOps ->
             IF BranchTaken(op, inst.val1, inst.val2)
             THEN Err(WAdd(inst.pc, I64Of(code.c)), inst, prog)
             ELSE Ok([inst EXCEPT !.stage = "Memory"], prog)
        [] OTHER -> Panic(inst, prog)

LoadWidth(op) ==
  CASE op \in {"Lb", "Lbu"} -> 1
    [] op \in {"Lh", "Lhu"} -> 2
    [] op \in {"Lw", "Lwu"} -> 4
    [] op = "Ld" -> 8

StoreWidth(op) ==
  CASE op = "Sb" -> 1
    [] op = "Sh" -> 2
    [] op = "Sw" -> 4
    [] op = "Sd" -> 8

\* Stage::Memory
AdvMemory(inst, prog) ==
  LET code == inst.code
      op == code.op
      regs == prog.registers
      Unlocked(text) ==
        IF UnlockPanics(regs, code.a) THEN Panic(inst, prog)
        ELSE Printed("Warning", text,
                     Err(HLT_ADDR, inst,
                         [prog EXCEPT !.registers = RegUnlock(regs, code.a)]))
      loaded(ld) ==
        IF ld = None THEN Unlocked("Cannot access memory")
        ELSE IF ld[1][2] # 0 THEN Unlocked("Access memory across VMAs")
        ELSE LET wide(vm) ==
                   Ok([inst EXCEPT !.val_m = vm, !.stage = "Writeback"],
                      [prog EXCEPT !.registers = RegForward(regs, code.a, vm)])
             IN  wide(IF op \in {"Lb", "Lh", "Lw"}
                      THEN SExt(ld[1][1], 8)
                      ELSE ZExt(ld[1][1], 8))
      stored(st) ==
        IF ~st[1]
        THEN Printed("Warning", "Cannot access memory",
                     Err(HLT_ADDR, inst, [prog EXCEPT !.vmas = st[2]]))
        ELSE Ok([inst EXCEPT !.stage = "Writeback"],
                [prog EXCEPT !.vmas = st[2]])
  IN  CASE op \in LoadOps ->
             loaded(mem_load(prog.vmas, inst.val_e, LoadWidth(op), FALSE))
        [] op \in StoreOps ->
             stored(mem_store(prog.vmas, inst.val_e,
                              SubSeq(inst.val2, 1, StoreWidth(op))))
        [] OTHER -> Ok([inst EXCEPT !.stage = "Writeback"], prog)

\* Stage::Writeback
AdvWriteback(inst, prog) ==
  LET code == inst.code
      regs == prog.registers
      Retire(val) ==
        IF UnlockPanics(regs, code.a) THEN Panic(inst, prog)
        ELSE Err(inst.next_pc, inst,
                 [prog EXCEPT !.registers =
                                RegUnlock(RegWrite(regs, code.a, val), code.a)])
  IN  CASE code.op \in (ROps \cup IOps \cup UOps) \ LoadOps -> Retire(inst.val_e)
        [] code.op \in LoadOps -> Retire(inst.val_m)
        [] OTHER -> Err(inst.next_pc, inst, prog)

\* Inst::advance
Advance(inst, prog) ==
  CASE inst.stage = "Fetch" -> AdvFetch(inst, prog)
    [] inst.stage = "Decode" -> AdvDecode(inst, prog)
    [] inst.stage = "Execute" -> AdvExecute(inst, prog)
    [] inst.stage = "Memory" -> AdvMemory(inst, prog)
    [] inst.stage = "Writeback" -> AdvWriteback(inst, prog)

(***************************************************************************)
(* The executables the simulator is run on: encoded instruction words in   *)
(* a code VMA, a data VMA, the address of the simulated puts().            *)
(***************************************************************************)
HalfBytes(first, second) ==
  <<first % 256, first \div 256, second % 256, second \div 256>>

EncR(func7, rs2, rs1, func3, rd, opcode) ==
  HalfBytes(opcode + rd * 128 + func3 * 4096 + (rs1 % 2) * 32768,
            (rs1 \div 2) + rs2 * 16 + func7 * 512)

EncImm12(imm, rs1, func3, rd, opcode) ==
  HalfBytes(opcode + rd * 128 + func3 * 4096 + (rs1 % 2) * 32768,
            (rs1 \div 2) + (imm % 4096) * 16)

EncS(imm, rs2, rs1, func3) ==
  EncR((imm % 4096) \div 32, rs2, rs1, func3, (imm % 4096) % 32, 35)

EncB(imm, rs2, rs1, func3) ==
  LET u == imm % 8192
  IN  HalfBytes(99 + (((u \div 2048) % 2) + ((u \div 2) % 16) * 2) * 128
                + func3 * 4096 + (rs1 % 2) * 32768,
                (rs1 \div 2) + rs2 * 16 + ((u \div 32) % 64) * 512
                + (u \div 4096) * 32768)

EncJ(imm, rd) ==
  LET u == imm % 2097152
      imm3 == (u \div 4096) % 256
  IN  HalfBytes(111 + rd * 128 + (imm3 % 16) * 4096,
                (imm3 \div 16) + ((u \div 2048) % 2) * 16
                + ((u \div 2) % 1024) * 32 + (u \div 1048576) * 32768)

ADDI(rd, rs1, imm) == EncImm12(imm, rs1, 0, rd, 19)

SLLI(rd, rs1, sh) == EncImm12(sh, rs1, 1, rd, 19)

SRLI(rd, rs1, sh) == EncImm12(sh, rs1, 5, rd, 19)

SRAI(rd, rs1, sh) == EncImm12(1024 + sh, rs1, 5, rd, 19)

ADD(rd, rs1, rs2) == EncR(0, rs2, rs1, 0, rd, 51)

MUL(rd, rs1, rs2) == EncR(1, rs2, rs1, 0, rd, 51)

MULH(rd, rs1, rs2) == EncR(1, rs2, rs1, 1, rd, 51)

DIV(rd, rs1, rs2) == EncR(1, rs2, rs1, 4, rd, 51)

REM(rd, rs1, rs2) == EncR(1, rs2, rs1, 6, rd, 51)

DIVW(rd, rs1, rs2) == EncR(1, rs2, rs1, 4, rd, 59)

REMW(rd, rs1, rs2) == EncR(1, rs2, rs1, 6, rd, 59)

LD(rd, imm, rs1) == EncImm12(imm, rs1, 3, rd, 3)

LB(rd, imm, rs1) == EncImm12(imm, rs1, 0, rd, 3)

SD(rs2, imm, rs1) == EncS(imm, rs2, rs1, 3)

BEQ(rs1, rs2, imm) == EncB(imm, rs2, rs1, 0)

BNE(rs1, rs2, imm) == EncB(imm, rs2, rs1, 1)

JAL(rd, imm) == EncJ(imm, rd)

JALR(rd, rs1, imm) == EncImm12(imm, rs1, 0, rd, 103)

ECALL == EncImm12(0, 0, 0, 0, 115)

RECURSIVE Flatten(_)
Flatten(words) ==
  IF words = <<>> THEN <<>> ELSE Head(words) \o Flatten(Tail(words))

CodeBase == U64Of(4096)

DataBase == U64Of(8192)

PutsAddr == U64Of(12288)

\* the data VMA holds DataLen bytes: byte i is i, a NUL-terminated string at
\* offset 16 and one at the very end without its NUL
DataLen == 32

DataBytes ==
  Tup([i \in 1..DataLen |->
         IF i = 17 THEN 104 ELSE IF i = 18 THEN 105 ELSE IF i = 19 THEN 0 ELSE i])

CodeVma(words) ==
  [lower_bound |-> CodeBase, size |-> U64Of(4 * Len(words)), readable |-> TRUE,
   writeble |-> FALSE, executable |-> TRUE, memory |-> Flatten(words)]

DataVma ==
  [lower_bound |-> DataBase, size |-> U64Of(DataLen), readable |-> TRUE,
   writeble |-> TRUE, executable |-> FALSE, memory |-> DataBytes]

\* a second writable segment that ends where the data VMA begins
LowLen == 8

LowVma ==
  [lower_bound |-> WSub(DataBase, U64Of(LowLen)), size |-> U64Of(LowLen),
   readable |-> TRUE, writeble |-> TRUE, executable |-> FALSE,
   memory |-> Tup([i \in 1..LowLen |-> 200 + i])]

\* Loader::STACK_BOTTOM, 0x4000000
STACK_BOTTOM == U64Of(67108864)

\* the bytes of the stack VMA that are represented (the top of the 1 MiB)
StackLen == 8

StackVma ==
  [lower_bound |-> WSub(STACK_BOTTOM, U64Of(StackLen)), size |-> U64Of(StackLen),
   readable |-> TRUE, writeble |-> TRUE, executable |-> FALSE,
   memory |-> Tup([i \in 1..StackLen |-> 0])]

RECURSIVE WriteAll(_, _)
WriteAll(regs, presets) ==
  IF presets = <<>> THEN regs
  ELSE WriteAll(RegWrite(regs, Head(presets)[1], Head(presets)[2]), Tail(presets))

\* Loader::load: the Program handed to the drivers.  img.presets are the
\* register values the run starts with besides sp and ra.
Load(img) ==
  [entry_point |-> img.entry,
   program_counter |-> img.entry,
   vmas |-> <<CodeVma(img.words), DataVma, StackVma, LowVma>>,
   registers |->
     WriteAll([id \in 0..31 |-> NewRegister(FALSE)],
              <<<<2, STACK_BOTTOM>>, <<1, HLT_ADDR>>>> \o img.presets),
   simulated_library_funcs |-> [a \in {PutsAddr} |-> "puts"],
   funcs |-> img.funcs]

\* string_from_memory
RECURSIVE string_from_memory(_, _, _)
string_from_memory(vmas, addr, bytes) ==
  LET loaded(ld) ==
        IF ld = None THEN None
        ELSE IF ld[1][2] # 0 THEN None
        ELSE IF ld[1][1][1] = 0 THEN Some(Append(bytes, 0))
        ELSE string_from_memory(vmas, WAdd(addr, One64),
                                Append(bytes, ld[1][1][1]))
  IN  loaded(mem_load(vmas, addr, 1, FALSE))

\* start_pc of both drivers
StartPc(p, count_from_main) ==
  IF count_from_main /\ \E i \in DOMAIN p.funcs : p.funcs[i][3] = "main"
  THEN p.funcs[CHOOSE i \in DOMAIN p.funcs :
                 /\ p.funcs[i][3] = "main"
                 /\ \A j \in DOMAIN p.funcs : p.funcs[j][3] = "main" => i <= j][1]
  ELSE p.entry_point

Line(kind, text, addr) == [kind |-> kind, text |-> text, addr |-> addr]

Lines(out) == [i \in DOMAIN out |-> Line(out[i][1], out[i][2], Zero64)]

\* the simulated puts() of both drivers: <<program, printed lines>>
Puts(p, arg0) ==
  LET str == string_from_memory(p.vmas, arg0, <<>>)
  IN  IF str = None
      THEN <<[p EXCEPT !.program_counter = WSub(HLT_ADDR, U64Of(4))],
             <<Line("Warning", "Cannot access memory", arg0)>>>>
      ELSE <<p, <<Line("puts", "puts():", arg0)>>>>

(***************************************************************************)
(* sim_seq.  s holds the Program, the locals of sim_seq, the position in   *)
(* its loop and what has been printed.                                     *)
(***************************************************************************)
\* the head of the loop: library call, PC update, halt test
seq_update_pc(s, count_from_main) ==
  LET lib == s.next_program_counter \in DOMAIN s.prog.simulated_library_funcs
      key == s.prog.simulated_library_funcs[s.next_program_counter]
      \* prog.program_counter = next_program_counter, and the halt test
      update(p, out) ==
        LET npc == p.program_counter
        IN  IF npc = HLT_ADDR
            THEN [s EXCEPT !.prog = p, !.next_program_counter = npc, !.cycles = 0,
                           !.at = "done",
                           !.stdout = Append(out,
                                             Line("Debug", "Halt from fetching HLT_ADDR",
                                                  npc))]
            ELSE [s EXCEPT !.prog = p, !.next_program_counter = npc, !.cycles = 0,
                           !.at = "fetch", !.stdout = out,
                           !.start_cpi_collection =
                              @ \/ StartPc(p, count_from_main) = npc]
      \* the library call, then next_program_counter = prog.program_counter + 4
      called(done) ==
        update(IF lib THEN [done[1] EXCEPT !.program_counter = WAdd(@, U64Of(4))]
               ELSE [s.prog EXCEPT !.program_counter = s.next_program_counter],
               s.stdout \o done[2])
      \* prog.registers.read(RegID::X10).unwrap()
      arg0 == RegRead(s.prog.registers, X10)
  IN  IF lib /\ key # "puts" THEN [s EXCEPT !.at = "panic"]
      ELSE IF lib /\ arg0 = None THEN [s EXCEPT !.at = "panic"]
      ELSE called(IF lib THEN Puts(s.prog, arg0[1]) ELSE <<s.prog, <<>>>>)

\* Fetch
seq_fetch(s) ==
  LET fetched(r) ==
        IF r.tag = "Err"
        THEN [s EXCEPT !.prog = r.prog, !.next_program_counter = r.pc,
                       !.cycles = 1, !.cpi = Append(@, 1), !.at = "update_pc",
                       !.stdout = @ \o Lines(r.out)]
        ELSE [s EXCEPT !.prog = r.prog, !.cycles = 1, !.loop_inst = Some(r.inst),
                       !.at = "advance",
                       !.stdout = Append(@ \o Lines(r.out),
                                         Line("inst", r.inst.code.op, r.inst.pc))]
  IN  fetched(Advance(NewInst, s.prog))

\* one turn of the loop Decode ~ Writeback
seq_advance(s) ==
  LET c == (s.cycles + 1) % 256
      advanced(r) ==
        IF r.tag = "Panic" \/ s.cycles + 1 > 255
        THEN [s EXCEPT !.loop_inst = None, !.at = "panic"]
        ELSE IF r.tag = "Err"
        THEN [s EXCEPT !.prog = r.prog, !.next_program_counter = r.pc,
                       !.cycles = c, !.loop_inst = None, !.at = "update_pc",
                       !.cpi = IF s.start_cpi_collection
                               THEN Append(@, IF c < 5 THEN 5 ELSE c) ELSE @,
                       !.stdout = @ \o Lines(r.out)]
        ELSE [s EXCEPT !.prog = r.prog, !.cycles = c, !.loop_inst = Some(r.inst),
                       !.stdout = @ \o Lines(r.out)]
  IN  advanced(Advance(s.loop_inst[1], s.prog))

(***************************************************************************)
(* sim_pipeline.  s holds the Program, the locals of sim_pipeline, the     *)
(* position in the cycle and what has been printed.  pipeline is indexed   *)
(* by Stage as usize.                                                      *)
(***************************************************************************)
\* a faulty numbering, in which Execute shares the slot of Memory
ExecuteAsMemory(stage) ==
  CASE stage = "Fetch" -> 0
    [] stage = "Decode" -> 1
    [] stage = "Execute" -> 3
    [] stage = "Memory" -> 3
    [] stage = "Writeback" -> 4

StageAsUsize(stage) ==
  CASE stage = "Fetch" -> 0
    [] stage = "Decode" -> 1
    [] stage = "Execute" -> 2
    [] stage = "Memory" -> 3
    [] stage = "Writeback" -> 4

\* a faulty flush, which drops nothing: C6 depends on the flush
NoFlush(pipeline, upto) == pipeline

\* a faulty flush, which drops the older instructions too
FlushAll(pipeline, upto) == [i \in DOMAIN pipeline |-> None]

\* a faulty flush, which leaves the instruction in Decode
FlushFetchOnly(pipeline, upto) == [pipeline EXCEPT ![0] = None]

\* for bubble in pipeline[..upto].iter_mut() { bubble.take() }
Bubble(pipeline, upto) ==
  [i \in DOMAIN pipeline |-> IF i < upto THEN None ELSE pipeline[i]]

Crash(s) == [s EXCEPT !.at = "panic"]

\* while !empty { empty = true; prog.registers.update_forward();
pipe_cycle_head(s) ==
  IF s.empty THEN [s EXCEPT !.at = "done"]
  ELSE [s EXCEPT !.empty = TRUE,
                 !.prog.registers = UpdateForwardAll(@),
                 !.at = "writeback"]

\* Writeback
pipe_writeback(s, start_pc) ==
  LET slot == StageAsUsize("Writeback")
      inst == s.pipeline[slot][1]
      started == s.start_cpi_collection \/ start_pc = inst.pc
      retired(r) ==
        IF r.tag # "Err" THEN Crash(s)
        ELSE [s EXCEPT !.pipeline[slot] = None, !.empty = FALSE, !.prog = r.prog,
                       !.start_cpi_collection = started,
                       !.instructions = IF started THEN @ + 1 ELSE @,
                       !.stdout = @ \o Lines(r.out),
                       !.at = "memory"]
  IN  IF s.pipeline[slot] = None THEN [s EXCEPT !.at = "memory"]
      ELSE retired(Advance(inst, s.prog))

\* Memory
pipe_memory(s) ==
  LET slot == StageAsUsize("Memory")
      inst == s.pipeline[slot][1]
      accessed(r) ==
        LET taken == [s EXCEPT !.pipeline[slot] = None, !.empty = FALSE,
                               !.prog = r.prog, !.stdout = @ \o Lines(r.out),
                               !.at = "execute_mult"]
        IN  IF r.tag = "Panic" THEN Crash(s)
            ELSE IF r.tag = "Ok"
            THEN IF r.inst.stage = "Writeback"
                 THEN [taken EXCEPT
                         !.pipeline[StageAsUsize("Writeback")] = Some(r.inst)]
                 ELSE Crash(s)
            ELSE [taken EXCEPT !.next_program_counter = HLT_ADDR,
                               !.pipeline = Bubble(@, StageAsUsize("Memory")),
                               !.execute_mult = None,
                               !.instructions =
                                  IF s.start_cpi_collection THEN @ + 1 ELSE @]
  IN  IF s.pipeline[slot] = None THEN [s EXCEPT !.at = "execute_mult"]
      ELSE accessed(Advance(inst, s.prog))

\* an Execute-Mult step that keeps the instruction in its slot
MultStalls(s) ==
  IF s.execute_mult = None THEN [s EXCEPT !.at = "execute"]
  ELSE [s EXCEPT !.empty = FALSE, !.at = "execute"]

\* Execute-Mult
pipe_execute_mult(s) ==
  LET inst == s.execute_mult[1]
      multiplied(r) ==
        IF r.tag = "Ok" /\ r.inst.stage = "Memory"
        THEN [s EXCEPT !.empty = FALSE, !.execute_mult = None, !.prog = r.prog,
                       !.pipeline[StageAsUsize("Memory")] = Some(r.inst),
                       !.stdout = @ \o Lines(r.out), !.at = "execute"]
        ELSE Crash(s)
  IN  IF s.execute_mult = None THEN [s EXCEPT !.at = "execute"]
      ELSE IF s.pipeline[StageAsUsize("Memory")] # None
      THEN [s EXCEPT !.empty = FALSE, !.at = "execute"]
      ELSE multiplied(Advance(inst, s.prog))

\* Execute
pipe_execute(s) ==
  LET slot == StageAsUsize("Execute")
      mem == StageAsUsize("Memory")
      inst == s.pipeline[slot][1]
      stay == [s EXCEPT !.empty = FALSE, !.at = "decode"]
      counted(n) == IF s.start_cpi_collection THEN n + 1 ELSE n
      executed(r) ==
        LET taken == [s EXCEPT !.pipeline[slot] = None, !.empty = FALSE,
                               !.prog = r.prog, !.stdout = @ \o Lines(r.out),
                               !.at = "decode"]
        IN  IF inst.code.op \in {"Mul", "Mulh"}
            THEN IF r.tag = "Ok" /\ r.inst.stage = "Execute" /\ r.inst.progress = 1
                 THEN [taken EXCEPT !.execute_mult = Some(r.inst)]
                 ELSE Crash(s)
            ELSE IF inst.code.op \in {"Div", "Divw", "Rem", "Remw"}
            THEN IF r.tag = "Panic" THEN Crash(s)
                 ELSE IF r.tag = "Ok"
                 THEN IF r.inst.stage = "Memory"
                      THEN [taken EXCEPT !.pipeline[mem] = Some(r.inst)]
                      ELSE [taken EXCEPT !.pipeline[slot] = Some(r.inst)]
                 ELSE [taken EXCEPT !.next_program_counter = HLT_ADDR,
                                    !.pipeline = Bubble(@, slot),
                                    !.instructions = counted(@)]
            ELSE IF r.tag = "Panic" THEN Crash(s)
            ELSE IF r.tag = "Ok"
            THEN IF r.inst.stage # "Memory" THEN Crash(s)
                 ELSE IF r.inst.code.op \in {"Jal", "Jalr"}
                 THEN [taken EXCEPT
                         !.pipeline = Bubble([@ EXCEPT ![mem] = Some(r.inst)], slot),
                         !.next_program_counter = r.inst.next_pc,
                         !.control_hazards = counted(@)]
                 ELSE [taken EXCEPT !.pipeline[mem] = Some(r.inst)]
            ELSE [taken EXCEPT !.next_program_counter = r.pc,
                               !.pipeline = Bubble(@, slot),
                               !.control_hazards = counted(@),
                               !.instructions = counted(@)]
      stalled ==
        IF inst.code.op \in {"Mul", "Mulh"} THEN s.execute_mult # None
        ELSE IF inst.code.op \in {"Div", "Divw", "Rem", "Remw"}
        THEN ~(inst.progress <= 38 \/ s.pipeline[mem] = None)
        ELSE s.pipeline[mem] # None
  IN  IF s.pipeline[slot] = None THEN [s EXCEPT !.at = "decode"]
      ELSE IF stalled THEN stay
      ELSE executed(Advance(inst, s.prog))

\* a Decode step that does not look at the Execute slot
DecodeIntoBusyExecute(s) ==
  LET slot == StageAsUsize("Decode")
      inst == s.pipeline[slot][1]
      decoded(r) ==
        IF r.tag # "Ok" THEN Crash(s)
        ELSE IF r.inst.stage = "Execute"
        THEN [s EXCEPT !.empty = FALSE, !.prog = r.prog,
                       !.pipeline = [@ EXCEPT ![slot] = None,
                                              ![StageAsUsize("Execute")] =
                                                 Some(r.inst)],
                       !.at = "fetch"]
        ELSE [s EXCEPT !.empty = FALSE, !.prog = r.prog,
                       !.pipeline[slot] = Some(r.inst),
                       !.data_hazards = IF s.start_cpi_collection THEN @ + 1 ELSE @,
                       !.at = "fetch"]
  IN  IF s.pipeline[slot] = None THEN [s EXCEPT !.at = "fetch"]
      ELSE decoded(Advance(inst, s.prog))

\* Decode
pipe_decode(s) ==
  LET slot == StageAsUsize("Decode")
      inst == s.pipeline[slot][1]
      decoded(r) ==
        IF r.tag # "Ok" THEN Crash(s)
        ELSE IF r.inst.stage = "Execute"
        THEN [s EXCEPT !.empty = FALSE, !.prog = r.prog,
                       !.pipeline = [@ EXCEPT ![slot] = None,
                                              ![StageAsUsize("Execute")] =
                                                 Some(r.inst)],
                       !.at = "fetch"]
        ELSE [s EXCEPT !.empty = FALSE, !.prog = r.prog,
                       !.pipeline[slot] = Some(r.inst),
                       !.data_hazards = IF s.start_cpi_collection THEN @ + 1 ELSE @,
                       !.at = "fetch"]
  IN  IF s.pipeline[slot] = None THEN [s EXCEPT !.at = "fetch"]
      ELSE IF s.pipeline[StageAsUsize("Execute")] # None
      THEN [s EXCEPT !.empty = FALSE, !.at = "fetch"]
      ELSE decoded(Advance(inst, s.prog))

\* Update PC and Fetch, and the cycle count that ends the cycle
pipe_fetch(s) ==
  LET lib == s.next_program_counter \in DOMAIN s.prog.simulated_library_funcs
      key == s.prog.simulated_library_funcs[s.next_program_counter]
      arg0 == RegRead(s.prog.registers, X10)
      stall == lib /\ arg0 = None
      counted(n) == IF s.start_cpi_collection THEN n + 1 ELSE n
      \* from prog.program_counter = next_program_counter on
      fetch(p, out) ==
        LET npc == p.program_counter
            s1 == [s EXCEPT !.empty = IF lib THEN FALSE ELSE @,
                            !.prog = p, !.next_program_counter = npc,
                            !.stdout =
                               IF npc = HLT_ADDR
                               THEN Append(out, Line("Debug", "Fetching from HLT_ADDR",
                                                     npc))
                               ELSE out,
                            !.cycles = counted(@),
                            !.at = "cycle_head"]
            fetched(r) ==
              IF r.tag = "Ok"
              THEN IF r.inst.stage # "Decode" THEN Crash(s)
                   ELSE [s1 EXCEPT !.empty = FALSE, !.prog = r.prog,
                                   !.next_program_counter = r.inst.next_pc,
                                   !.pipeline[StageAsUsize("Decode")] = Some(r.inst),
                                   !.stdout = Append(@ \o Lines(r.out),
                                                     Line("inst", r.inst.code.op,
                                                          r.inst.pc))]
              ELSE [s1 EXCEPT !.prog = r.prog, !.next_program_counter = HLT_ADDR,
                              !.stdout = @ \o Lines(r.out)]
        IN  IF npc # HLT_ADDR /\ s.pipeline[StageAsUsize("Decode")] = None
            THEN fetched(Advance(NewInst, p))
            ELSE s1
      \* the library call, then next_program_counter = prog.program_counter + 4
      called(done) ==
        fetch(IF lib THEN [done[1] EXCEPT !.program_counter = WAdd(@, U64Of(4))]
              ELSE [s.prog EXCEPT !.program_counter = s.next_program_counter],
              s.stdout \o done[2])
  IN  IF lib /\ key # "puts" THEN Crash(s)
      ELSE IF stall
      THEN [s EXCEPT !.empty = FALSE, !.cycles = counted(@),
                     !.data_hazards = counted(@), !.at = "cycle_head"]
      ELSE called(IF lib THEN Puts(s.prog, arg0[1]) ELSE <<s.prog, <<>>>>)

(***************************************************************************)
(* The runs.                                                               *)
(***************************************************************************)
Image(words, presets) ==
  [entry |-> CodeBase, words |-> words, presets |-> presets,
   funcs |-> <<<<CodeBase, 4 * Len(words), "main">>>>]

\* jal offset from the word at index i of the code to puts()
ToPuts(i) == NatOf(PutsAddr) - (NatOf(CodeBase) + 4 * i)

\* div with v2 = 0
DivByZero == Image(<<ADDI(5, 0, 10), ADD(6, 0, 0), DIV(7, 5, 6)>>, <<>>)

\* a taken beq over addi x7
TakenBeq ==
  Image(<<ADDI(5, 0, 3), ADDI(6, 0, 3), BEQ(5, 6, 8), ADDI(7, 0, 99),
          ADDI(8, 0, 1)>>, <<>>)

TwoLoads ==
  Image(<<LD(5, 0, 28), LD(5, 8, 28), ADD(6, 5, 5), JALR(0, 1, 0)>>,
        <<<<28, DataBase>>>>)

\* a load from an unmapped address
FailedLoad == Image(<<LD(9, 0, 0), ADDI(5, 0, 1), ADDI(6, 0, 2)>>, <<>>)

PutsCall ==
  Image(<<ADDI(10, 28, 16), JAL(1, ToPuts(1)), ADDI(5, 0, 1), ADDI(6, 0, 2)>>,
        <<<<28, DataBase>>>>)

\* divw by 2^32
DivwUpperBits ==
  Image(<<ADDI(6, 0, 1), SLLI(6, 6, 32), ADDI(5, 0, 10), DIVW(7, 5, 6)>>, <<>>)

\* div by zero into x7 behind an older writer of x7
DivAfterWriter ==
  Image(<<ADDI(7, 0, 1), DIV(7, 5, 6), ADDI(8, 0, 1)>>, <<<<5, U64Of(10)>>>>)

ZeroDestination ==
  Image(<<ADDI(0, 0, 5), ADD(5, 0, 0), LD(0, 0, 28), ADD(6, 0, 28),
          MUL(0, 28, 28), JAL(0, 4), ADDI(7, 0, 1)>>, <<<<28, DataBase>>>>)

\* a division behind a multiplication: the mul is in Memory while the div waits
MulThenDiv ==
  Image(<<MUL(6, 5, 5), DIV(7, 5, 5), ADDI(8, 0, 1)>>, <<<<5, U64Of(10)>>>>)

\* the same with a zero divisor
MulThenDivByZero ==
  Image(<<MUL(6, 5, 5), DIV(7, 5, 0), ADDI(8, 0, 1)>>, <<<<5, U64Of(10)>>>>)

\* main returns to the loader's x1
SumAndReturn ==
  Image(<<ADDI(5, 0, 7), ADDI(6, 0, 5), ADD(7, 5, 6), JALR(0, 1, 0)>>, <<>>)

\* the same with a register write and a store behind the return
ReturnThenMore ==
  Image(<<ADDI(5, 0, 7), ADDI(6, 0, 5), ADD(7, 5, 6), JALR(0, 1, 0),
          ADDI(7, 0, 99), SD(5, 0, 28)>>, <<<<28, DataBase>>>>)

\* an ld and an sd of 8 bytes that begin 4 bytes below the data VMA, in the
\* VMA next to it
CrossLoadAdjacent ==
  Image(<<ADDI(9, 0, 7), LD(9, -4, 28), ADDI(5, 0, 1)>>, <<<<28, DataBase>>>>)

CrossStoreAdjacent ==
  Image(<<ADDI(5, 0, -1), SD(5, -4, 28), ADDI(6, 0, 1)>>, <<<<28, DataBase>>>>)

\* an sd of 8 bytes whose last 4 bytes lie behind the data VMA, unmapped
CrossStoreUnmapped ==
  Image(<<ADDI(5, 0, -1), SD(5, 28, 28), ADDI(6, 0, 1)>>, <<<<28, DataBase>>>>)

\* an add that reads the destination of the addi in front of it
AddAfterAddi == Image(<<ADDI(5, 0, 1), ADD(6, 5, 5)>>, <<>>)

\* mulh of -1 and 1 with a reader of its destination behind it
MulhThenAdd ==
  Image(<<MULH(6, 5, 28), ADD(7, 6, 6)>>,
        <<<<5, WSub(Zero64, One64)>>, <<28, One64>>>>)

\* an ecall with a0 = 1 and a7 = 0, which prints a1 and goes on
EcallPrint ==
  Image(<<ADDI(10, 0, 1), ECALL, ADDI(5, 0, 1)>>, <<<<11, U64Of(66)>>>>)

\* a load behind a store to the same address
StoreThenLoad ==
  Image(<<ADDI(5, 0, 16), SD(5, 0, 28), LD(6, 0, 28)>>, <<<<28, DataBase>>>>)

\* a taken beq behind a mul: the beq waits one cycle in Execute for the
\* Memory slot, with the fall-through addi x7 behind it in Decode
MulThenBranch ==
  Image(<<MUL(5, 6, 6), BEQ(0, 0, 8), ADDI(7, 0, 99), ADDI(8, 0, 1)>>,
        <<<<6, U64Of(3)>>>>)

\* a taken beq as the first instruction
BranchAtEntry == Image(<<BEQ(0, 0, 8), ADDI(7, 0, 99), ADDI(8, 0, 1)>>, <<>>)

\* an executable whose entry point is HLT_ADDR
HaltEntry == [Image(<<ADDI(5, 0, 1)>>, <<>>) EXCEPT !.entry = HLT_ADDR]

Images ==
  << \* the six end-to-end scenarios
     SumAndReturn,
     Image(<<ADDI(5, 0, -1), SRLI(6, 5, 4), SRAI(7, 5, 4)>>, <<>>),
     StoreThenLoad,
     DivByZero,
     TakenBeq,
     AddAfterAddi,
     \* two writers of x5 in flight in front of a reader
     TwoLoads,
     Image(<<LD(5, 0, 28), MUL(5, 28, 28), ADD(6, 5, 5)>>, <<<<28, DataBase>>>>),
     Image(<<ADDI(5, 0, 3), MUL(6, 5, 5), MUL(7, 6, 6), ADD(8, 7, 6)>>, <<>>),
     \* failing loads and stores with younger instructions behind them
     FailedLoad,
     Image(<<ADDI(5, 0, 1), SD(5, 0, 0), ADDI(6, 0, 1)>>, <<>>),
     Image(<<ADDI(9, 0, 7), LD(9, 28, 28), ADDI(5, 0, 1)>>, <<<<28, DataBase>>>>),
     \* calls of puts()
     PutsCall,
     Image(<<ADDI(10, 28, 28), JAL(1, ToPuts(1)), ADDI(5, 0, 1)>>,
           <<<<28, DataBase>>>>),
     Image(<<JALR(1, 9, 0), ADDI(5, 0, 1), ADDI(6, 0, 2)>>,
           <<<<9, PutsAddr>>, <<10, WAdd(DataBase, U64Of(16))>>>>),
     \* divisions
     DivwUpperBits,
     DivAfterWriter,
     Image(<<ADDI(5, 0, 10), REM(7, 5, 0), ADDI(8, 0, 1)>>, <<<<7, U64Of(3)>>>>),
     Image(<<ADDI(5, 0, -7), ADDI(6, 0, 2), DIV(7, 5, 6), REMW(8, 5, 6),
             ADD(9, 7, 8)>>, <<>>),
     Image(<<DIVW(7, 5, 0), ADDI(8, 0, 1)>>, <<<<5, U64Of(10)>>>>),
     Image(<<REMW(7, 5, 6), ADDI(8, 0, 1)>>,
           <<<<5, U64Of(10)>>, <<6, <<0, 0, 0, 0, 1, 0, 0, 0>>>>>>),
     \* control transfers
     Image(<<JAL(0, 8), ADDI(7, 0, 99), ADDI(8, 0, 1)>>, <<>>),
     Image(<<ADDI(5, 0, 2), ADDI(5, 5, -1), BNE(5, 0, -4), ADDI(6, 0, 1)>>, <<>>),
     Image(<<ADDI(17, 0, 93), ECALL, ADDI(5, 0, 1)>>, <<>>),
     Image(<<ADDI(5, 0, 1), BEQ(5, 0, 8), ADDI(7, 0, 99), MUL(8, 5, 5),
             JALR(1, 1, 0), ADDI(9, 0, 1)>>, <<>>),
     \* x0 as a destination
     ZeroDestination,
     \* a division in Execute with the Memory slot occupied
     MulThenDiv,
     MulThenDivByZero,
     \* instructions behind the return of main
     ReturnThenMore,
     HaltEntry,
     \* loads and stores across the boundary of two VMAs
     CrossLoadAdjacent,
     CrossStoreAdjacent,
     CrossStoreUnmapped,
     \* the start of CPI collection
     BranchAtEntry,
     MulhThenAdd,
     EcallPrint,
     MulThenBranch
  >>

VARIABLES elf, cli, prog, next_program_counter, cycles, cpi, start_cpi_collection,
          loop_inst, instructions, data_hazards, control_hazards, pipeline,
          execute_mult, empty, at, stdout,
          head,   \* history: the slots and the next PC as they were at the
                  \* head of the current cycle (None before the first)
          call    \* the last direct call of a Register or Program method, with
                  \* its arguments and what it returned

vars ==
  <<elf, cli, prog, next_program_counter, cycles, cpi, start_cpi_collection,
    loop_inst, instructions, data_hazards, control_hazards, pipeline,
    execute_mult, empty, at, stdout, head, call>>

\* main: load the executable, set enable_forwarding for the pipelined run
Loaded(e, c) ==
  LET p == Load(Images[e])
  IN  IF c.sequential THEN p
      ELSE [p EXCEPT !.registers =
                       [id \in DOMAIN @ |-> [@[id] EXCEPT !.enable_forwarding = c.forward]]]

Clis ==
  {[sequential |-> TRUE, forward |-> FALSE, count_from_main |-> FALSE],
   [sequential |-> FALSE, forward |-> FALSE, count_from_main |-> FALSE],
   [sequential |-> FALSE, forward |-> TRUE, count_from_main |-> FALSE]}

\* the state in which main calls the driver
Started ==
  /\ prog = Loaded(elf, cli)
  /\ next_program_counter = prog.program_counter
  /\ cycles = 0
  /\ cpi = <<>>
  /\ start_cpi_collection = FALSE
  /\ loop_inst = None
  /\ instructions = 0
  /\ data_hazards = 0
  /\ control_hazards = 0
  /\ pipeline = [i \in 0..4 |-> None]
  /\ execute_mult = None
  /\ empty = FALSE
  /\ stdout = <<Line("Debug", "entry point", prog.entry_point)>>
  /\ head = None
  /\ call = None

Init ==
  /\ elf \in DOMAIN Images
  /\ cli \in Clis
  /\ Started
  /\ at = IF cli.sequential THEN "update_pc" ELSE "cycle_head"

\* the Program and the locals of sim_seq
SeqCur ==
  [prog |-> prog, next_program_counter |-> next_program_counter,
   cycles |-> cycles, cpi |-> cpi, start_cpi_collection |-> start_cpi_collection,
   loop_inst |-> loop_inst, at |-> at, stdout |-> stdout]

SeqAssign(s) ==
  /\ prog' = s.prog
  /\ next_program_counter' = s.next_program_counter
  /\ cycles' = s.cycles
  /\ cpi' = s.cpi
  /\ start_cpi_collection' = s.start_cpi_collection
  /\ loop_inst' = s.loop_inst
  /\ at' = s.at
  /\ stdout' = s.stdout
  /\ UNCHANGED <<elf, cli, instructions, data_hazards, control_hazards, pipeline,
                 execute_mult, empty, head, call>>

\* the Program and the locals of sim_pipeline
PipeCur ==
  [prog |-> prog, next_program_counter |-> next_program_counter,
   cycles |-> cycles, instructions |-> instructions,
   data_hazards |-> data_hazards, control_hazards |-> control_hazards,
   start_cpi_collection |-> start_cpi_collection, pipeline |-> pipeline,
   execute_mult |-> execute_mult, empty |-> empty, at |-> at, stdout |-> stdout]

PipeAssign(s) ==
  /\ prog' = s.prog
  /\ next_program_counter' = s.next_program_counter
  /\ cycles' = s.cycles
  /\ instructions' = s.instructions
  /\ data_hazards' = s.data_hazards
  /\ control_hazards' = s.control_hazards
  /\ start_cpi_collection' = s.start_cpi_collection
  /\ pipeline' = s.pipeline
  /\ execute_mult' = s.execute_mult
  /\ empty' = s.empty
  /\ at' = s.at
  /\ stdout' = s.stdout
  /\ head' = IF at = "cycle_head"
             THEN [pipeline |-> pipeline, execute_mult |-> execute_mult,
                   next_program_counter |-> next_program_counter]
             ELSE head
  /\ UNCHANGED <<elf, cli, cpi, loop_inst, call>>

SeqUpdatePC ==
  /\ cli.sequential /\ at = "update_pc"
  /\ SeqAssign(seq_update_pc(SeqCur, cli.count_from_main))

SeqFetch ==
  /\ cli.sequential /\ at = "fetch"
  /\ SeqAssign(seq_fetch(SeqCur))

SeqAdvance ==
  /\ cli.sequential /\ at = "advance"
  /\ SeqAssign(seq_advance(SeqCur))

CycleHead ==
  /\ ~cli.sequential /\ at = "cycle_head"
  /\ PipeAssign(pipe_cycle_head(PipeCur))

WritebackStep ==
  /\ ~cli.sequential /\ at = "writeback"
  /\ PipeAssign(pipe_writeback(PipeCur, StartPc(prog, cli.count_from_main)))

MemoryStep ==
  /\ ~cli.sequential /\ at = "memory"
  /\ PipeAssign(pipe_memory(PipeCur))

ExecuteMultStep ==
  /\ ~cli.sequential /\ at = "execute_mult"
  /\ PipeAssign(pipe_execute_mult(PipeCur))

ExecuteStep ==
  /\ ~cli.sequential /\ at = "execute"
  /\ PipeAssign(pipe_execute(PipeCur))

DecodeStep ==
  /\ ~cli.sequential /\ at = "decode"
  /\ PipeAssign(pipe_decode(PipeCur))

FetchStep ==
  /\ ~cli.sequential /\ at = "fetch"
  /\ PipeAssign(pipe_fetch(PipeCur))

Next ==
  \/ SeqUpdatePC
  \/ SeqFetch
  \/ SeqAdvance
  \/ CycleHead
  \/ WritebackStep
  \/ MemoryStep
  \/ ExecuteMultStep
  \/ ExecuteStep
  \/ DecodeStep
  \/ FetchStep

Spec == Init /\ [][Next]_vars

\* sim_seq from a loaded Program to the end of its loop
SeqStart(p) ==
  [prog |-> p, next_program_counter |-> p.program_counter, cycles |-> 0,
   cpi |-> <<>>, start_cpi_collection |-> FALSE, loop_inst |-> None,
   at |-> "update_pc",
   stdout |-> <<Line("Debug", "entry point", p.entry_point)>>]

RECURSIVE sim_seq(_, _)
sim_seq(s, count_from_main) ==
  IF s.at = "update_pc" THEN sim_seq(seq_update_pc(s, count_from_main), count_from_main)
  ELSE IF s.at = "fetch" THEN sim_seq(seq_fetch(s), count_from_main)
  ELSE IF s.at = "advance" THEN sim_seq(seq_advance(s), count_from_main)
  ELSE s

(***************************************************************************)
(* Properties.                                                             *)
(***************************************************************************)
Pipelined == ~cli.sequential

EndOfCycle == Pipelined /\ at = "cycle_head"

Halted == at = "done"

\* the slots that hold instructions which have completed Decode, youngest first
SlotsPast(pl, em) ==
  <<pl[StageAsUsize("Execute")], em, pl[StageAsUsize("Memory")],
    pl[StageAsUsize("Writeback")]>>

PastDecode == SlotsPast(pipeline, execute_mult)

\* the number of instructions past Decode whose destination is R
Writers(slots, R) ==
  Cardinality({k \in DOMAIN slots :
                 /\ slots[k] # None
                 /\ HasRd(slots[k][1].code)
                 /\ slots[k][1].code.a = R})

WriteCnt(R) == prog.registers[R].write_cnt

Value(R) == prog.registers[R].value

Values(p) == [R \in DOMAIN p.registers |-> p.registers[R].value]

Memories(p) == [i \in DOMAIN p.vmas |-> p.vmas[i].memory]

Said(kind, text) ==
  \E i \in DOMAIN stdout : stdout[i].kind = kind /\ stdout[i].text = text

\* the run has met a fatal runtime error: a failed load or store, a division or
\* remainder by zero, a halting ecall, a fetch fault
FatalError ==
  \/ Said("Warning", "Cannot access memory")
  \/ Said("Warning", "Access memory across VMAs")
  \/ Said("Warning", "Divide by 0 Execption")
  \/ Said("Warning", "Reminder by 0 Execption")
  \/ Said("Debug", "ecall is exit(), exiting...")
  \/ Said("Warning", "ecall not simulated")
  \/ Said("Warning", "Cannot fetch")

\* C1: in the pipelined driver, at the end of every cycle, every register's
\* write-pending counter equals the number of instructions in the Execute,
\* mul_phase2, Memory and Writeback slots whose destination is that register.
C1_CounterCountsWriters ==
  EndOfCycle => \A R \in 0..31 : WriteCnt(R) = Writers(PastDecode, R)

\* C2: after a fatal runtime error in the pipelined driver, once the pipeline
\* has drained, every register's write-pending counter is 0.
C2_DrainedCountersZero ==
  (Pipelined /\ Halted /\ FatalError) => \A R \in 0..31 : WriteCnt(R) = 0

\* C3: when the pipelined run and the sequential run of the same executable
\* both halt, they end with the same register values and memory contents.
C3_SameFinalState ==
  (Pipelined /\ Halted) =>
     LET seq == sim_seq(SeqStart(Load(Images[elf])), cli.count_from_main)
     IN  seq.at = "done" =>
           /\ Values(prog) = Values(seq.prog)
           /\ Memories(prog) = Memories(seq.prog)

\* the source registers Decode reads, in the order of the operands it caches
SrcRegs(code) ==
  CASE code.op \in ROps -> <<code.b, code.c>>
    [] code.op \in IOps -> <<code.b>>
    [] code.op \in StoreOps \cup BranchOps -> <<code.a, code.b>>
    [] code.op = "Ecall" -> <<X10, X11, X17>>
    [] OTHER -> <<>>

Operands(inst) == <<inst.val1, inst.val2, inst.val_e>>

\* an instruction whose destination is x0 writes no register
WritesReg(inst, R) == HasRd(inst.code) /\ inst.code.a = R /\ R # X0

OlderWriters(R) ==
  {k \in DOMAIN PastDecode : PastDecode[k] # None /\ WritesReg(PastDecode[k][1], R)}

\* the youngest of them: PastDecode lists the slots youngest first
YoungestWriter(R) ==
  PastDecode[CHOOSE k \in OlderWriters(R) : \A j \in OlderWriters(R) : k <= j][1]

\* the value an instruction past Decode is going to write to its destination
RECURSIVE Result(_, _)
Result(inst, p) ==
  IF inst.stage = "Writeback"
  THEN Some(IF inst.code.op \in LoadOps THEN inst.val_m ELSE inst.val_e)
  ELSE LET r == Advance(inst, p)
       IN  IF r.tag = "Ok" THEN Result(r.inst, r.prog) ELSE None

\* the Decode step moves the instruction of the Decode slot to the Execute slot
DecodeLeaves ==
  /\ Pipelined /\ at = "decode"
  /\ pipeline[StageAsUsize("Decode")] # None
  /\ pipeline'[StageAsUsize("Decode")] = None
  /\ pipeline'[StageAsUsize("Execute")] # None

Leaving == pipeline'[StageAsUsize("Execute")][1]

\* C4: with forwarding disabled, an instruction leaves Decode only when no
\* older instruction in flight still has to write one of its source registers,
\* and the operands it caches are the committed register values.
C4_DecodeWaitsForWriteback ==
  [][(DecodeLeaves /\ ~cli.forward) =>
       \A k \in DOMAIN SrcRegs(Leaving.code) :
          /\ OlderWriters(SrcRegs(Leaving.code)[k]) = {}
          /\ Operands(Leaving)[k] = Value(SrcRegs(Leaving.code)[k])]_vars

\* C4 is exercised: without forwarding, an instruction that had to wait in
\* Decode has just entered Execute with the value its producer committed.
C4_Witness ==
  /\ Pipelined /\ ~cli.forward /\ at = "fetch" /\ data_hazards > 0
  /\ pipeline[StageAsUsize("Execute")] # None
  /\ pipeline[StageAsUsize("Execute")][1].code.op = "Add"
  /\ pipeline[StageAsUsize("Execute")][1].progress = 0
  /\ pipeline[StageAsUsize("Execute")][1].val1 = U64Of(7)
  /\ Value(pipeline[StageAsUsize("Execute")][1].code.b) = U64Of(7)

\* C5: with forwarding enabled, a Decode read of a register whose
\* write-pending counter is non-zero obtains the result of the youngest
\* older instruction in flight whose destination is that register.
C5_ForwardedIsYoungest ==
  [][(DecodeLeaves /\ cli.forward) =>
       \A k \in DOMAIN SrcRegs(Leaving.code) :
          LET R == SrcRegs(Leaving.code)[k]
          IN  (WriteCnt(R) # 0 /\ OlderWriters(R) # {}
               /\ Result(YoungestWriter(R), prog) # None)
              => Operands(Leaving)[k] = Result(YoungestWriter(R), prog)[1]]_vars

\* the instruction in the Execute slot
InExecute == pipeline[StageAsUsize("Execute")][1]

\* the Execute step advances the instruction of its slot
ExecuteActs ==
  /\ Pipelined /\ at = "execute"
  /\ pipeline[StageAsUsize("Execute")] # None

\* ... and that instruction is a jal, a jalr or a branch that is taken
Resolves ==
  /\ ExecuteActs
  /\ pipeline[StageAsUsize("Memory")] = None
  /\ \/ InExecute.code.op \in {"Jal", "Jalr"}
     \/ /\ InExecute.code.op \in BranchOps
        /\ BranchTaken(InExecute.code.op, InExecute.val1, InExecute.val2)

\* pc + imm of a jal or a branch, (rs1 + imm) & !1 of a jalr
Target(inst) ==
  CASE inst.code.op = "Jal" -> WAdd(inst.pc, I64Of(inst.code.b))
    [] inst.code.op = "Jalr" ->
         [WAdd(inst.val1, I64Of(inst.code.c)) EXCEPT ![1] = (@ \div 2) * 2]
    [] OTHER -> WAdd(inst.pc, I64Of(inst.code.c))

IsLibrary(addr) == addr \in DOMAIN prog.simulated_library_funcs

\* C6: when a jal, a jalr or a taken branch resolves in Execute, the Fetch and
\* Decode slots and the mul_phase2 slot are empty after that step and the next
\* PC is the target; the empty Decode slot leaves the next PC alone in the
\* Decode step, and the instruction the Fetch step then puts into Decode is the
\* one at that PC (a target outside the simulated-library table); after the
\* taken beq +8 of the scenario x7 ends as 0 and x8 as 1.
C6_TransferFlushesAndRedirects ==
  [][/\ Resolves =>
          /\ pipeline'[StageAsUsize("Fetch")] = None
          /\ pipeline'[StageAsUsize("Decode")] = None
          /\ execute_mult' = None
          /\ next_program_counter' = Target(InExecute)
          /\ at' = "decode"
     /\ (Pipelined /\ at = "decode" /\ pipeline[StageAsUsize("Decode")] = None) =>
          /\ pipeline'[StageAsUsize("Decode")] = None
          /\ next_program_counter' = next_program_counter
          /\ at' = "fetch"
     /\ (/\ Pipelined /\ at = "fetch" /\ ~IsLibrary(next_program_counter)
         /\ pipeline[StageAsUsize("Decode")] = None
         /\ pipeline'[StageAsUsize("Decode")] # None) =>
          pipeline'[StageAsUsize("Decode")][1].pc = next_program_counter
     /\ (Pipelined /\ Images[elf] = TakenBeq /\ at' = "done") =>
          /\ prog'.registers[7].value = Zero64
          /\ prog'.registers[8].value = One64]_vars

\* C6 is exercised: the beq of the scenario has just been taken, with the
\* fall-through addi x7 dropped from Decode and the next PC at addi x8.
C6_Witness ==
  /\ Pipelined /\ Images[elf] = TakenBeq /\ at = "decode"
  /\ pipeline[StageAsUsize("Decode")] = None
  /\ pipeline[StageAsUsize("Execute")] = None
  /\ next_program_counter = WAdd(CodeBase, U64Of(16))
  /\ prog.program_counter = WAdd(CodeBase, U64Of(12))
  /\ \E i \in DOMAIN stdout :
        stdout[i] = Line("inst", "Addi", WAdd(CodeBase, U64Of(12)))

\* the lines of stdout that tell of a fetched instruction or of a call of puts()
IsCall(l) == l.kind = "inst" /\ l.text \in {"Jal", "Jalr"}

\* C7: in both drivers, the instruction fetched after a call of the library
\* shim is the one at P + 4, P being the address of the call instruction: the
\* first instruction fetched after puts() ran is at the address of the last
\* jal or jalr fetched before it, plus 4.
C7_ReturnsBehindCall ==
  \A i, j, k \in DOMAIN stdout :
     (/\ i < j /\ j < k
      /\ IsCall(stdout[i]) /\ stdout[j].kind = "puts" /\ stdout[k].kind = "inst"
      /\ \A m \in (i + 1)..(j - 1) : ~IsCall(stdout[m])
      /\ \A m \in (j + 1)..(k - 1) : stdout[m].kind # "inst")
     => stdout[k].addr = WAdd(stdout[i].addr, U64Of(4))

\* the Execute step of either driver acts on a div or a rem whose v2 is 0
DivZeroInPipeline ==
  /\ ExecuteActs
  /\ InExecute.code.op \in {"Div", "Rem"}
  /\ InExecute.val2 = Zero64

DivZeroInSeq ==
  /\ ~Pipelined /\ at = "advance"
  /\ loop_inst[1].stage = "Execute"
  /\ loop_inst[1].code.op \in {"Div", "Rem"}
  /\ loop_inst[1].val2 = Zero64

Counters(p) == [R \in DOMAIN p.registers |-> p.registers[R].write_cnt]

\* C8: a div or rem whose v2 is 0 halts on its first Execute cycle (the next
\* PC becomes HLT_ADDR), no register value changes, the counter of rd goes
\* back by the one lock of the instruction (to the number of other writers of
\* rd in flight; to 0 in the sequential driver), the older instructions in
\* Memory and Writeback stay in their slots, and they complete: the scenario
\* ends with x7 = 0, the division behind an older writer of x7 ends with
\* x7 = 1, both with every counter at 0.
C8_DivideByZeroHalts ==
  [][/\ DivZeroInPipeline =>
          /\ InExecute.progress = 0
          /\ at' = "decode"
          /\ next_program_counter' = HLT_ADDR
          /\ Values(prog') = Values(prog)
          /\ Counters(prog') =
               [Counters(prog) EXCEPT ![InExecute.code.a] = @ - 1]
          /\ Counters(prog')[InExecute.code.a] =
               Writers(SlotsPast(pipeline', execute_mult'), InExecute.code.a)
          /\ pipeline'[StageAsUsize("Execute")] = None
          /\ pipeline'[StageAsUsize("Decode")] = None
          /\ pipeline'[StageAsUsize("Memory")] = pipeline[StageAsUsize("Memory")]
          /\ pipeline'[StageAsUsize("Writeback")] =
               pipeline[StageAsUsize("Writeback")]
     /\ DivZeroInSeq =>
          /\ loop_inst[1].progress = 0
          /\ at' = "update_pc"
          /\ next_program_counter' = HLT_ADDR
          /\ Values(prog') = Values(prog)
          /\ Counters(prog') = [R \in DOMAIN prog.registers |-> 0]
     /\ (Images[elf] = DivByZero /\ at' = "done") =>
          /\ prog'.registers[7].value = Zero64
          /\ prog'.registers[5].value = U64Of(10)
          /\ Counters(prog') = [R \in DOMAIN prog.registers |-> 0]
     /\ (Images[elf] = DivAfterWriter /\ at' = "done") =>
          /\ prog'.registers[7].value = One64
          /\ prog'.registers[8].value = Zero64
          /\ Counters(prog') = [R \in DOMAIN prog.registers |-> 0]]_vars

\* C8 is exercised: the pipelined run of the division behind an older writer
\* of x7 has halted in Execute, with the older addi x7 still in flight and
\* holding the one lock that is left on x7.
C8_Witness ==
  /\ Pipelined /\ Images[elf] = DivAfterWriter /\ at = "decode"
  /\ Said("Warning", "Divide by 0 Execption")
  /\ next_program_counter = HLT_ADDR
  /\ WriteCnt(7) = 1
  /\ Writers(PastDecode, 7) = 1
  /\ Value(7) = Zero64

\* the Execute step of either driver acts on a divw or a remw whose divisor,
\* the low 32 bits of v2, is 0
DivwZeroInPipeline ==
  /\ ExecuteActs
  /\ InExecute.code.op \in {"Divw", "Remw"}
  /\ W32(InExecute.val2) = WordOf(0, 4)
  /\ InExecute.progress > 38 => pipeline[StageAsUsize("Memory")] = None

DivwZeroInSeq ==
  /\ ~Pipelined /\ at = "advance"
  /\ loop_inst[1].stage = "Execute"
  /\ loop_inst[1].code.op \in {"Divw", "Remw"}
  /\ W32(loop_inst[1].val2) = WordOf(0, 4)

\* C9: a divw or remw whose 32-bit divisor is 0, the upper 32 bits of v2 being
\* what they may, is a division by zero: Execute unlocks rd and returns
\* HLT_ADDR, and the simulator halts instead of dividing.
C9_WordDivideByZeroHalts ==
  [][(DivwZeroInPipeline \/ DivwZeroInSeq) =>
       /\ at' # "panic"
       /\ next_program_counter' = HLT_ADDR
       /\ Counters(prog') =
            [Counters(prog) EXCEPT
               ![IF Pipelined THEN InExecute.code.a ELSE loop_inst[1].code.a] =
                  @ - 1]]_vars

(***************************************************************************)
(* The register file on its own: any sequence of write, lock, unlock,      *)
(* forward and update_forward on the registers of a loaded Program, beside *)
(* the runs of the two drivers.                                            *)
(***************************************************************************)
\* the operations stop locking a register at this count
MaxLocks == 2

OpRegs == {X0, X10}

OpValues == {Zero64, One64, HLT_ADDR}

OpFrame ==
  UNCHANGED <<elf, cli, next_program_counter, cycles, cpi, start_cpi_collection,
              loop_inst, instructions, data_hazards, control_hazards, pipeline,
              execute_mult, empty, stdout, head>>

\* read(&self) hands back a value and has no register to assign to
ReadOp ==
  /\ at = "ops"
  /\ \E id \in OpRegs :
        call' = [op |-> "read", id |-> id, ret |-> RegRead(prog.registers, id)]
  /\ UNCHANGED <<prog, at>> /\ OpFrame

WriteOp ==
  /\ at = "ops"
  /\ \E id \in OpRegs, v \in OpValues :
        prog' = [prog EXCEPT !.registers = RegWrite(@, id, v)]
  /\ UNCHANGED <<at, call>> /\ OpFrame

LockOp ==
  /\ at = "ops"
  /\ \E id \in OpRegs :
        /\ prog.registers[id].write_cnt < MaxLocks
        /\ prog' = [prog EXCEPT !.registers = RegLock(@, id)]
  /\ UNCHANGED <<at, call>> /\ OpFrame

UnlockOp ==
  /\ at = "ops"
  /\ \E id \in OpRegs :
        IF UnlockPanics(prog.registers, id)
        THEN at' = "panic" /\ prog' = prog
        ELSE at' = at /\ prog' = [prog EXCEPT !.registers = RegUnlock(@, id)]
  /\ UNCHANGED call /\ OpFrame

ForwardOp ==
  /\ at = "ops"
  /\ \E id \in OpRegs, v \in OpValues :
        prog' = [prog EXCEPT !.registers = RegForward(@, id, v)]
  /\ UNCHANGED <<at, call>> /\ OpFrame

UpdateForwardOp ==
  /\ at = "ops"
  /\ prog' = [prog EXCEPT !.registers = UpdateForwardAll(@)]
  /\ UNCHANGED <<at, call>> /\ OpFrame

RegInit ==
  \/ Init
  \/ /\ elf \in DOMAIN Images /\ Images[elf] = ZeroDestination
     /\ cli \in {c \in Clis : ~c.sequential}
     /\ Started
     /\ at = "ops"

RegNext ==
  \/ Next
  \/ ReadOp
  \/ WriteOp
  \/ LockOp
  \/ UnlockOp
  \/ ForwardOp
  \/ UpdateForwardOp

RegSpec == RegInit /\ [][RegNext]_vars

\* a step of either driver advances an instruction whose destination is x0
(***************************************************************************)
(* Program::mem_load and Program::mem_store called directly, on VMAs with  *)
(* the permissions an executable's segments can have.                      *)
(***************************************************************************)
MaxStores == 1

Vma(lo, n, r, w, x) ==
  [lower_bound |-> U64Of(lo), size |-> U64Of(n), readable |-> r,
   writeble |-> w, executable |-> x,
   memory |-> Tup([i \in 1..n |-> (lo + i - 1) % 256])]

\* rw- | rw- | r-- | --x | -w- | r-x, one behind the other from 256 on, and
\* nothing mapped before or behind them
TestVmas ==
  <<Vma(256, 8, TRUE, TRUE, FALSE), Vma(264, 4, TRUE, TRUE, FALSE),
    Vma(268, 4, TRUE, FALSE, FALSE), Vma(272, 4, FALSE, FALSE, TRUE),
    Vma(276, 4, FALSE, TRUE, FALSE), Vma(280, 4, TRUE, FALSE, TRUE)>>

MemAddrs == {U64Of(a) : a \in {256, 260, 266, 270, 272, 276, 280, 282}}

MemSizes == {1, 4, 8}

StoreData(sz) == Tup([i \in 1..sz |-> 160 + i])

StoresDone == IF call = None THEN 0 ELSE call.stores

MemLoadOp ==
  /\ at = "mem"
  /\ \E addr \in MemAddrs, sz \in MemSizes, execute \in BOOLEAN :
        call' = [op |-> "mem_load", addr |-> addr, sz |-> sz, execute |-> execute,
                 ret |-> mem_load(prog.vmas, addr, sz, execute),
                 stores |-> StoresDone]
  /\ UNCHANGED <<prog, at>> /\ OpFrame

MemStoreOp ==
  /\ at = "mem" /\ StoresDone < MaxStores
  /\ \E addr \in MemAddrs, sz \in MemSizes :
        LET stored(r) ==
              /\ prog' = [prog EXCEPT !.vmas = r[2]]
              /\ call' = [op |-> "mem_store", addr |-> addr, data |-> StoreData(sz),
                          ret |-> r[1], stores |-> StoresDone + 1]
        IN  stored(mem_store(prog.vmas, addr, StoreData(sz)))
  /\ UNCHANGED at /\ OpFrame

MemInit ==
  \/ Init
  \/ /\ elf \in DOMAIN Images /\ Images[elf] = SumAndReturn
     /\ cli \in {c \in Clis : c.sequential}
     /\ prog = [Loaded(elf, cli) EXCEPT !.vmas = TestVmas]
     /\ next_program_counter = prog.program_counter
     /\ cycles = 0
     /\ cpi = <<>>
     /\ start_cpi_collection = FALSE
     /\ loop_inst = None
     /\ instructions = 0
     /\ data_hazards = 0
     /\ control_hazards = 0
     /\ pipeline = [i \in 0..4 |-> None]
     /\ execute_mult = None
     /\ empty = FALSE
     /\ stdout = <<>>
     /\ head = None
     /\ call = None
     /\ at = "mem"

MemNext ==
  \/ Next
  \/ MemLoadOp
  \/ MemStoreOp

MemSpec == MemInit /\ [][MemNext]_vars

(***************************************************************************)
(* Inst::advance and InstCode::parse called directly: one instruction in a *)
(* chosen stage with chosen operands, and one encoded word.                *)
(***************************************************************************)
\* operands: 0, 1, 4, 31, 33, -1, 2^31, 2^63 and a word with mixed bytes
ExecValues ==
  {Zero64, One64, U64Of(4), U64Of(31), U64Of(33), WSub(Zero64, One64),
   <<0, 0, 0, 128, 0, 0, 0, 0>>, <<0, 0, 0, 0, 0, 0, 0, 128>>,
   <<120, 86, 52, 18, 240, 222, 188, 154>>}

ExecOps == {"Mul", "Mulh", "Sllw", "Srlw", "Sraw"}

\* an instruction that Decode has passed to Execute; a mul or mulh has spent
\* its first Execute cycle
InExecuteStage(code, v1, v2, ve) ==
  [NewInst EXCEPT !.code = code, !.pc = CodeBase,
                  !.next_pc = WAdd(CodeBase, U64Of(4)), !.stage = "Execute",
                  !.progress = IF code.op \in MulOps THEN 1 ELSE 0,
                  !.val1 = v1, !.val2 = v2, !.val_e = ve]

\* the Program the calls are made on
CallProg == Load(SumAndReturn)

ExecInputs ==
  {[prog |-> CallProg, inst |-> InExecuteStage(Code3(op, 5, 6, 7), v1, v2, Zero64)] :
     op \in ExecOps, v1 \in ExecValues, v2 \in ExecValues}

\* encoded words: addi and ecall, which Fetch accepts, and one word for each
\* operation that the decoder knows and Fetch refuses
FetchWords ==
  {ADDI(5, 0, 1), ECALL,
   HalfBytes(123, 0),              \* no such opcode: Unknown
   HalfBytes(0, 0),                \* a 16-bit encoding: UnknownC
   HalfBytes(31, 0),               \* a longer encoding: IllegalProlonged
   EncImm12(0, 0, 0, 0, 15),       \* fence
   EncImm12(0, 0, 1, 0, 15),       \* fence.i
   EncImm12(768, 5, 1, 6, 115),    \* csrrw
   EncImm12(768, 5, 2, 6, 115),    \* csrrs
   EncImm12(768, 5, 3, 6, 115),    \* csrrc
   EncImm12(768, 5, 5, 6, 115),    \* csrrwi
   EncImm12(768, 5, 6, 6, 115),    \* csrrsi
   EncImm12(768, 5, 7, 6, 115),    \* csrrci
   EncImm12(1, 0, 0, 0, 115),      \* ebreak
   EncImm12(2, 0, 0, 0, 115),      \* uret
   EncImm12(258, 0, 0, 0, 115),    \* sret
   EncImm12(770, 0, 0, 0, 115),    \* mret
   EncImm12(261, 0, 0, 0, 115),    \* wfi
   EncImm12(288, 5, 0, 0, 115)}    \* sfence.vma

\* the permissions a segment can have, as <<readable, writeble, executable>>
FetchPerms ==
  <<<<TRUE, FALSE, TRUE>>, <<TRUE, FALSE, FALSE>>, <<FALSE, FALSE, TRUE>>,
    <<FALSE, TRUE, FALSE>>, <<TRUE, TRUE, FALSE>>, <<FALSE, FALSE, FALSE>>>>

\* one VMA of 4 bytes for each of them, 8 bytes apart from 256 on, each
\* holding the word
FetchVmas(word) ==
  [k \in DOMAIN FetchPerms |->
     [Vma(248 + 8 * k, 4, FetchPerms[k][1], FetchPerms[k][2], FetchPerms[k][3])
        EXCEPT !.memory = word]]

\* the start of each VMA, the middle of the first, an unmapped address and
\* HLT_ADDR
FetchPcs ==
  {U64Of(248 + 8 * k) : k \in DOMAIN FetchPerms}
    \cup {U64Of(258), U64Of(512), HLT_ADDR}

FetchInputs ==
  {[prog |-> [CallProg EXCEPT !.vmas = FetchVmas(word), !.program_counter = pc],
    inst |-> NewInst] : word \in FetchWords, pc \in FetchPcs}

\* a7 and a0 of an ecall: the recognised codes, their neighbours, and words
\* that agree with a code in the low half only
EcallA7 ==
  {U64Of(n) : n \in {0, 1, 10, 56, 57, 62, 63, 64, 80, 93, 94, 214}}
    \cup {<<93, 0, 0, 0, 1, 0, 0, 0>>}

EcallA0 == {U64Of(n) : n \in {0, 1, 2, 10, 11}} \cup {<<1, 0, 0, 0, 1, 0, 0, 0>>}

\* an ecall in each stage behind Fetch; in Decode it reads a0, a1 and a7 of
\* the Program
EcallInputs ==
  {[prog |-> CallProg,
    inst |-> InExecuteStage(Code0("Ecall"), a0, U64Of(66), a7)] :
     a0 \in EcallA0, a7 \in EcallA7}
  \cup
  {[prog |-> [CallProg EXCEPT !.registers =
                WriteAll(@, <<<<X10, a0>>, <<X11, U64Of(66)>>, <<X17, a7>>>>)],
    inst |-> [InExecuteStage(Code0("Ecall"), Zero64, Zero64, Zero64)
                EXCEPT !.stage = "Decode"]] :
     a0 \in {Zero64, One64}, a7 \in {Zero64, U64Of(93)}}
  \cup
  {[prog |-> CallProg,
    inst |-> [InExecuteStage(Code0("Ecall"), One64, U64Of(66), Zero64)
                EXCEPT !.stage = st]] : st \in {"Memory", "Writeback"}}

\* one instruction of each arm of Decode: x5 and x6 are the sources, x7 the
\* destination, and also a destination that is a source and the destination x0
DecodeCodes ==
  {Code3("Add", 7, 5, 6), Code3("Add", 5, 5, 5), Code3("Add", 0, 5, 6),
   Code3("Div", 7, 5, 6), Code3("Addi", 7, 5, 1), Code3("Ld", 7, 5, 0),
   Code3("Jalr", 7, 5, 0), Code3("Sd", 5, 6, 0), Code3("Beq", 5, 6, 8),
   Code2("Lui", 7, 1), Code2("Auipc", 7, 1), Code2("Jal", 7, 8),
   Code0("Ecall")}

\* the registers that older instructions have locked when Decode is called
DecodeLocks == (SUBSET {5, 6, 7}) \cup {{0}, {10}, {11}, {17}}

\* register files of a Program in mid-run: the registers of locks have one
\* writer pending, and, with forwarding, x5 may have a forwarded value
DecodeRegs ==
  {[id \in 0..31 |->
      [value |-> IF id \in {5, 6} THEN U64Of(id - 2)
                 ELSE CallProg.registers[id].value,
       write_cnt |-> IF id \in locks THEN 1 ELSE 0,
       forward_values |-> IF id = 5 /\ forwards THEN f5 ELSE None,
       enable_forwarding |-> forwards]] :
     locks \in DecodeLocks, forwards \in BOOLEAN,
     f5 \in {None, Some(U64Of(9))}}

DecodeInputs ==
  {[prog |-> [CallProg EXCEPT !.registers = regs],
    inst |-> [InExecuteStage(code, Zero64, Zero64, Zero64)
                EXCEPT !.stage = "Decode", !.progress = 0]] :
     regs \in DecodeRegs, code \in DecodeCodes}

CallInputs == ExecInputs \cup FetchInputs \cup EcallInputs \cup DecodeInputs

\* the 12-bit immediates given to the decoder: every value of the upper six
\* bits with a few values of the lower six
ParseImms == {hi * 64 + lo : hi \in 0..63, lo \in {0, 1, 31, 32, 63}}

\* the words of opcodes 0x13 and 0x1B with funct3 1 or 5, as two halfwords
ParseInputs ==
  {LET word == EncImm12(imm, 6, func3, 5, opcode)
   IN  [first |-> word[1] + 256 * word[2], second |-> word[3] + 256 * word[4]] :
     imm \in ParseImms, func3 \in {1, 5}, opcode \in {19, 27}}

\* bits 12..2 of the 16-bit words given to the decoder
CompressedFields == {(k * 85) % 2048 : k \in 0..47} \cup {1, 2047}

\* the 16-bit words of quadrants 0 and 1 with these fields under each funct3
\* that the decoder names (c.addi4spn, c.fld, c.lw, c.ld, c.fsd, c.sw, c.sd,
\* c.nop and c.addi, c.addiw, c.li), followed by an arbitrary second halfword
CompressedInputs ==
  {[first |-> sel[1] + 4 * mid + 8192 * sel[2], second |-> second] :
     sel \in {<<0, 0>>, <<0, 1>>, <<0, 2>>, <<0, 3>>, <<0, 5>>, <<0, 6>>,
              <<0, 7>>, <<1, 0>>, <<1, 1>>, <<1, 2>>},
     mid \in CompressedFields \cup {0},
     second \in {0, 65535}}

\* a word for every opcode and funct3 of the 32-bit encodings, with the
\* funct7 and rs2 fields that the decoder tells operations apart by
SweepInputs ==
  {LET word == EncR(func7, rs2, 0, func3, 5, 4 * quarter + 3)
   IN  [first |-> word[1] + 256 * word[2], second |-> word[3] + 256 * word[4]] :
     quarter \in 0..31, func3 \in 0..7, func7 \in {0, 1, 5, 8, 9, 24, 32},
     rs2 \in {0, 1, 2, 5}}

\* InstCode::parse called on two halfwords chosen with the initial state
ParseOp ==
  /\ at = "inst" /\ call.op = "raw"
  /\ call' = [op |-> "parse", first |-> call.first, second |-> call.second,
              ret |-> parse(call.first, call.second)]
  /\ at' = "returned" /\ UNCHANGED prog /\ OpFrame

\* the instruction is a local of the caller: it is chosen with the initial
\* state, and advance is called on it once
AdvanceOp ==
  /\ at = "inst" /\ call.op = "new"
  /\ LET advanced(r) ==
           /\ prog' = r.prog
           /\ call' = [op |-> "advance", inst |-> call.inst, tag |-> r.tag,
                       ret |-> r.inst, pc |-> r.pc, out |-> r.out]
     IN  advanced(Advance(call.inst, prog))
  /\ at' = "returned" /\ OpFrame

InstInit ==
  \/ Init
  \/ /\ elf \in DOMAIN Images /\ Images[elf] = SumAndReturn
     /\ cli \in {c \in Clis : c.sequential}
     /\ \/ \E input \in CallInputs :
              /\ prog = input.prog
              /\ call = [op |-> "new", inst |-> input.inst]
        \/ \E input \in ParseInputs \cup CompressedInputs \cup SweepInputs :
              /\ prog = CallProg
              /\ call = [op |-> "raw", first |-> input.first,
                         second |-> input.second]
     /\ next_program_counter = prog.program_counter
     /\ cycles = 0
     /\ cpi = <<>>
     /\ start_cpi_collection = FALSE
     /\ loop_inst = None
     /\ instructions = 0
     /\ data_hazards = 0
     /\ control_hazards = 0
     /\ pipeline = [i \in 0..4 |-> None]
     /\ execute_mult = None
     /\ empty = FALSE
     /\ stdout = <<>>
     /\ head = None
     /\ at = "inst"

InstNext ==
  \/ Next
  \/ AdvanceOp
  \/ ParseOp

InstSpec == InstInit /\ [][InstNext]_vars

AdvancesZeroDestination ==
  \/ /\ ~Pipelined /\ at = "advance"
     /\ HasRd(loop_inst[1].code) /\ loop_inst[1].code.a = X0
  \/ /\ Pipelined
     /\ \E stage \in {"Decode", "Execute", "Memory", "Writeback"} :
           /\ at = CASE stage = "Decode" -> "decode"
                     [] stage = "Execute" -> "execute"
                     [] stage = "Memory" -> "memory"
                     [] stage = "Writeback" -> "writeback"
           /\ pipeline[StageAsUsize(stage)] # None
           /\ HasRd(pipeline[StageAsUsize(stage)][1].code)
           /\ pipeline[StageAsUsize(stage)][1].code.a = X0
  \/ /\ Pipelined /\ at = "execute_mult" /\ execute_mult # None
     /\ execute_mult[1].code.a = X0

\* C10: after any sequence of write, lock, unlock, forward and update_forward,
\* and in every state of both drivers, read(x0) returns Some(0) and the stored
\* value of x0 is 0; a step that advances an instruction whose destination is
\* x0 changes no register value, and the run of such instructions ends with
\* the values of the other instructions only.
C10_ZeroRegister ==
  /\ [](/\ RegRead(prog.registers, X0) = Some(Zero64)
        /\ prog.registers[X0].value = Zero64)
  /\ [][/\ AdvancesZeroDestination => Values(prog') = Values(prog)
        /\ (Images[elf] = ZeroDestination /\ at' = "done") =>
             /\ prog'.registers[5].value = Zero64
             /\ prog'.registers[6].value = DataBase
             /\ prog'.registers[7].value = One64]_vars

\* C10 is exercised: with forwarding enabled, the operations have left locks
\* and a forwarded value on x0, and a value in x10.
C10_Witness ==
  /\ at = "ops" /\ cli.forward
  /\ prog.registers[X0].write_cnt = MaxLocks
  /\ prog.registers[X0].forward_values = Some(HLT_ADDR)
  /\ prog.registers[X10].value = HLT_ADDR

\* what the register file of a state promises for a read of register id
ReadOf(regs, id) ==
  IF regs[id].write_cnt = 0 THEN Some(regs[id].value)
  ELSE IF regs[id].enable_forwarding /\ regs[id].forward_values # None
  THEN regs[id].forward_values
  ELSE None

\* C11: for every register other than x0, in every state of the drivers and
\* after any sequence of write, lock, unlock, forward and update_forward, read
\* gives the stored value when write_cnt is 0, and with write_cnt above 0 the
\* forwarded value if forwarding is enabled and one is present, "not ready"
\* (None) otherwise; a call of read returns just that and leaves the whole
\* register file as it was.
C11_ReadByCounter ==
  /\ [](\A id \in DOMAIN prog.registers \ {X0} :
          RegRead(prog.registers, id) = ReadOf(prog.registers, id))
  /\ [][(call' # call /\ call'.op = "read" /\ call'.id # X0) =>
          /\ call'.ret = ReadOf(prog.registers, call'.id)
          /\ prog' = prog]_vars

\* C11 is exercised: read was called on x10 while it was locked and held a
\* forwarded value other than its stored one, and returned the forwarded one.
C11_Witness ==
  /\ call # None /\ call.op = "read" /\ call.id = X10
  /\ prog.registers[X10].write_cnt > 0
  /\ prog.registers[X10].forward_values = Some(HLT_ADDR)
  /\ prog.registers[X10].value = One64
  /\ call.ret = Some(HLT_ADDR)

\* the pipelined driver has just run the head of a cycle and no stage yet
HeadOfCycle == Pipelined /\ at = "writeback"

\* C12: at the head of every pipeline cycle, after update_forward and before
\* any stage is advanced, no register holds a forwarded value, so that what a
\* read returns is the stored value or "not ready", never a value forwarded in
\* the cycle before.
C12_ForwardClearedAtHead ==
  HeadOfCycle =>
    \A id \in DOMAIN prog.registers :
       /\ prog.registers[id].forward_values = None
       /\ id # X0 =>
            RegRead(prog.registers, id) =
              IF WriteCnt(id) = 0 THEN Some(Value(id)) ELSE None

\* C12 is exercised: with forwarding enabled, the instruction now in Memory
\* forwarded its result from Execute in the cycle before, and its destination
\* is still locked.
C12_Witness ==
  /\ HeadOfCycle /\ cli.forward
  /\ pipeline[StageAsUsize("Memory")] # None
  /\ LET inst == pipeline[StageAsUsize("Memory")][1]
     IN  /\ HasRd(inst.code) /\ inst.code.op \notin LoadOps
         /\ inst.code.a # X0
         /\ WriteCnt(inst.code.a) > 0
         /\ inst.val_e # Value(inst.code.a)

\* the slots an instruction can wait in, youngest first: Decode, Execute,
\* mul_phase2, Memory, Writeback
InFlight(pl, em) ==
  <<pl[StageAsUsize("Decode")], pl[StageAsUsize("Execute")], em,
    pl[StageAsUsize("Memory")], pl[StageAsUsize("Writeback")]>>

\* the slot the instruction of slot k moves to
Downstream(k, inst) ==
  CASE k = 1 -> {2}
    [] k = 2 -> IF inst.code.op \in MulOps THEN {3} ELSE {4}
    [] k = 3 -> {4}
    [] k = 4 -> {5}
    [] OTHER -> {}

\* the step of the cycle that advances slot k
StepOf(k) ==
  CASE k = 1 -> "decode"
    [] k = 2 -> "execute"
    [] k = 3 -> "execute_mult"
    [] k = 4 -> "memory"
    [] OTHER -> "writeback"

SameInst(a, b) == a.pc = b.pc /\ a.code = b.code

\* a division that is still counting its cycles in Execute
Waiting(inst) == inst.code.op \in DivOps /\ inst.progress <= 38

\* this step may take the instruction of slot k out of the pipeline: it
\* retires in Writeback, it fails in Memory or Execute, or it is flushed
\* behind a failing instruction or a control transfer
Departs(k) ==
  LET slots == InFlight(pipeline, execute_mult)
      acts(inst) ==
        IF inst.code.op \in MulOps THEN slots[3] = None
        ELSE Waiting(inst) \/ slots[4] = None
  IN  \/ at = "writeback" /\ k = 5
      \/ /\ at = "memory" /\ k <= 4 /\ slots[4] # None
         /\ Advance(slots[4][1], prog).tag = "Err"
      \/ /\ at = "execute" /\ k <= 2 /\ slots[2] # None /\ acts(slots[2][1])
         /\ \/ Advance(slots[2][1], prog).tag = "Err"
            \/ k = 1 /\ slots[2][1].code.op \in {"Jal", "Jalr"}

\* the rules of the slots; strict: a division in its wait is held to the rule
\* of the stalled instruction as well
SlotRules(strict) ==
  Pipelined =>
    LET old == InFlight(pipeline, execute_mult)
        new == InFlight(pipeline', execute_mult')
    IN  \A k \in 1..5 :
          \* nothing is put into an occupied slot
          /\ (old[k] # None /\ new[k] # None) => SameInst(old[k][1], new[k][1])
          \* what appears in an empty slot was fetched or came from upstream
          /\ (old[k] = None /\ new[k] # None) =>
               \/ k = 1 /\ at = "fetch"
               \/ \E j \in 1..4 :
                     /\ old[j] # None /\ k \in Downstream(j, old[j][1])
                     /\ at = StepOf(j) /\ new[j] = None
                     /\ SameInst(old[j][1], new[k][1])
          \* what is in neither its slot nor the next has retired or was flushed
          /\ (/\ old[k] # None
              /\ \A j \in {k} \cup Downstream(k, old[k][1]) :
                    new[j] = None \/ ~SameInst(old[k][1], new[j][1])) =>
               Departs(k)
          \* with the downstream slot occupied the instruction stays as it is
          /\ (/\ old[k] # None /\ at = StepOf(k)
              /\ \E j \in Downstream(k, old[k][1]) : old[j] # None) =>
               IF ~strict /\ k = 2 /\ Waiting(old[k][1])
               THEN new[k] \in {None, Some([old[k][1] EXCEPT !.progress = @ + 1])}
               ELSE new[k] = old[k]
          /\ (k = 1 /\ at = "fetch" /\ old[k] # None) => new[k] = old[k]

\* C13 as stated: in the pipelined driver an instruction is placed into a slot
\* only when the slot is empty, no instruction in flight is overwritten, an
\* instruction leaves the pipeline only by retiring (in Writeback, or in
\* Execute or Memory with Err) or by a flush, and every instruction whose
\* downstream slot is occupied stays in its slot unchanged.
C13_StalledStaysUnchanged == [][SlotRules(TRUE)]_vars

\* C13, amended: the same, except that a division in the 39 cycles of its wait
\* is advanced whatever the Memory slot holds: with Memory occupied it stays in
\* Execute with its progress counted up by one, or it halts on a zero divisor.
C13_SlotsKeepInstructions == [][SlotRules(FALSE)]_vars

\* C13 is exercised: the Execute step finds a division in its wait and the
\* mul before it in Memory.
C13_Witness ==
  /\ Pipelined /\ at = "execute"
  /\ pipeline[StageAsUsize("Execute")] # None
  /\ Waiting(pipeline[StageAsUsize("Execute")][1])
  /\ pipeline[StageAsUsize("Memory")] # None
  /\ pipeline[StageAsUsize("Memory")][1].code.op = "Mul"

\* C14: in the pipelined driver every instruction crosses at most one stage
\* boundary per cycle, mul_phase2 counting as a step between Execute and
\* Memory: all through a cycle, the instructions in the slots past Decode are,
\* one for one, instructions that were in the same slot or in the slot just
\* before it at the head of the cycle.
C14_OneBoundaryPerCycle ==
  (Pipelined /\ head # None) =>
    LET was == InFlight(head.pipeline, head.execute_mult)
        now == InFlight(pipeline, execute_mult)
        past == {j \in 2..5 : now[j] # None}
    IN  \E from \in [past -> 1..5] :
          /\ \A i, j \in past : from[i] = from[j] => i = j
          /\ \A j \in past :
                /\ was[from[j]] # None
                /\ SameInst(was[from[j]][1], now[j][1])
                /\ from[j] = j \/ j \in Downstream(from[j], was[from[j]][1])

\* C14 is exercised: at the end of a cycle a mul has gone from Execute to
\* mul_phase2, the instruction behind it from Decode to Execute and the one
\* before it from Memory to Writeback.
C14_Witness ==
  /\ EndOfCycle /\ head # None
  /\ head.pipeline[StageAsUsize("Execute")] # None
  /\ execute_mult # None
  /\ SameInst(head.pipeline[StageAsUsize("Execute")][1], execute_mult[1])
  /\ head.pipeline[StageAsUsize("Decode")] # None
  /\ pipeline[StageAsUsize("Execute")] # None
  /\ SameInst(head.pipeline[StageAsUsize("Decode")][1],
              pipeline[StageAsUsize("Execute")][1])
  /\ head.pipeline[StageAsUsize("Memory")] # None
  /\ pipeline[StageAsUsize("Writeback")] # None
  /\ SameInst(head.pipeline[StageAsUsize("Memory")][1],
              pipeline[StageAsUsize("Writeback")][1])

\* jalr x0, x1, 0
IsReturn(inst) ==
  inst.code.op = "Jalr" /\ inst.code.a = X0 /\ inst.code.b = 1 /\ inst.code.c = 0

\* C16: the loader leaves HLT_ADDR in x1, and with it `jalr x0, x1, 0` halts
\* both drivers: the step in which the jalr resolves (Execute in the pipeline,
\* the Err of Writeback in the sequential driver) makes the next PC exactly
\* HLT_ADDR; in the runs of `addi x5,0,7; addi x6,0,5; add x7,x5,x6;
\* jalr x0,x1,0`, with or without an addi x7 and an sd behind the jalr, the
\* older instructions commit (x5 = 7, x6 = 5, x7 = 12 at the halt, with the
\* next PC at HLT_ADDR), and no state of the run has a memory byte or another
\* register value changed.
C16_ReturnToHaltHalts ==
  /\ [](Loaded(elf, cli).registers[1].value = HLT_ADDR)
  /\ [][/\ (/\ ExecuteActs /\ IsReturn(InExecute)
            /\ InExecute.val1 = HLT_ADDR
            /\ pipeline[StageAsUsize("Memory")] = None) =>
             /\ next_program_counter' = HLT_ADDR
             /\ pipeline'[StageAsUsize("Decode")] = None
        /\ (/\ ~Pipelined /\ at = "advance" /\ IsReturn(loop_inst[1])
            /\ loop_inst[1].stage = "Writeback"
            /\ loop_inst[1].val1 = HLT_ADDR) =>
             next_program_counter' = HLT_ADDR /\ at' = "update_pc"]_vars
  /\ [](Images[elf] \in {SumAndReturn, ReturnThenMore} =>
          /\ at # "panic"
          /\ Memories(prog) = Memories(Loaded(elf, cli))
          /\ \A R \in DOMAIN prog.registers \ {5, 6, 7} :
                Value(R) = Loaded(elf, cli).registers[R].value
          /\ Value(5) \in {Zero64, U64Of(7)}
          /\ Value(6) \in {Zero64, U64Of(5)}
          /\ Value(7) \in {Zero64, U64Of(12)}
          /\ (Halted =>
                /\ next_program_counter = HLT_ADDR
                /\ Value(5) = U64Of(7) /\ Value(6) = U64Of(5)
                /\ Value(7) = U64Of(12)))

\* C16 is exercised: the pipelined run has halted with x7 = 12 after fetching
\* the addi x7 behind the jalr.
C16_Witness ==
  /\ Pipelined /\ Halted /\ Images[elf] = ReturnThenMore
  /\ Value(7) = U64Of(12)
  /\ \E i \in DOMAIN stdout :
        /\ stdout[i].kind = "inst" /\ stdout[i].text = "Addi"
        /\ stdout[i].addr = WAdd(CodeBase, U64Of(16))

\* the instructions printed as fetched so far
Fetched == {i \in DOMAIN stdout : stdout[i].kind = "inst"}

\* a jal, a jalr or a branch in Decode or Execute, which may still set the
\* next PC
Redirecting(slot) ==
  slot # None /\ slot[1].code.op \in BranchOps \cup {"Jal", "Jalr"}

\* the pipelined driver has HLT_ADDR as its next PC and nothing in flight
\* that may redirect it
Halting(pl, npc) ==
  /\ Pipelined /\ npc = HLT_ADDR
  /\ ~Redirecting(pl[StageAsUsize("Decode")])
  /\ ~Redirecting(pl[StageAsUsize("Execute")])

HaltPending == Halting(pipeline, next_program_counter)

\* the steps the instruction of slot k has to take before it has retired
StepsLeft(k, inst) ==
  CASE k = 1 -> 5 + (IF inst.code.op \in DivOps THEN 39 ELSE 0)
    [] k = 2 -> IF inst.code.op \in DivOps THEN 43 - inst.progress ELSE 4
    [] k = 3 -> 3
    [] k = 4 -> 2
    [] OTHER -> 1

\* ... and all instructions in flight
RECURSIVE WorkLeft(_, _)
WorkLeft(slots, k) ==
  IF k = 0 THEN 0
  ELSE WorkLeft(slots, k - 1) +
       (IF slots[k] = None THEN 0 ELSE StepsLeft(k, slots[k][1]))

\* C15: when the PC is HLT_ADDR no instruction is fetched. A run whose entry
\* point is HLT_ADDR fetches and retires nothing in either driver and changes
\* no register; the sequential driver leaves its loop at a next PC of
\* HLT_ADDR; in the pipelined driver, once the next PC is HLT_ADDR with no
\* jal, jalr or branch in Decode or Execute, the next PC stays HLT_ADDR and
\* nothing more is fetched, the instructions in flight drain without a panic,
\* and the loop is left after finitely many cycles: every such cycle leaves
\* less work in flight than it found, and a cycle that finds none is the last.
C15_HaltStopsFetch ==
  /\ [](Images[elf] = HaltEntry =>
          /\ at # "panic" /\ Fetched = {} /\ instructions = 0 /\ cpi = <<>>
          /\ pipeline = [i \in 0..4 |-> None]
          /\ Values(prog) = Values(Loaded(elf, cli)))
  /\ [][/\ (~Pipelined /\ at = "update_pc"
            /\ next_program_counter = HLT_ADDR) =>
             at' = "done" /\ Fetched' = Fetched
        /\ HaltPending => HaltPending' /\ Fetched' = Fetched
        /\ (EndOfCycle /\ empty) => at' = "done"]_vars
  /\ [](HaltPending => at # "panic")
  /\ []((/\ EndOfCycle /\ head # None
         /\ Halting(head.pipeline, head.next_program_counter)) =>
          LET was == WorkLeft(InFlight(head.pipeline, head.execute_mult), 5)
              now == WorkLeft(InFlight(pipeline, execute_mult), 5)
          IN  IF was = 0 THEN now = 0 /\ empty ELSE now < was)

\* a direct call of mem_load has just returned
Loads == call' # call /\ call'.op = "mem_load"

\* ... of mem_store
Stores == call' # call /\ call'.op = "mem_store"

\* the VMA that mem_load and mem_store find for addr
Holds(vmas, addr) == vmas[FindVma(vmas, addr)]

\* C17: a load whose address lies inside a VMA is rejected (None) exactly when
\* that VMA is not readable and the access is not an instruction fetch from
\* an executable VMA.
C17_LoadRejectedByPermission ==
  [][(Loads /\ FindVma(prog.vmas, call'.addr) # 0) =>
       LET vma == Holds(prog.vmas, call'.addr)
       IN  call'.ret = None <=>
             ~vma.readable /\ ~(call'.execute /\ vma.executable)]_vars

\* the load instruction inst, in Memory, reads from a readable VMA past its end
CrossingLoad(inst) ==
  /\ inst.stage = "Memory" /\ inst.code.op \in LoadOps
  /\ FindVma(prog.vmas, inst.val_e) # 0
  /\ LET vma == Holds(prog.vmas, inst.val_e)
     IN  /\ vma.readable
         /\ NatOf(inst.val_e) + LoadWidth(inst.code.op) >
              NatOf(vma.lower_bound) + NatOf(vma.size)

\* the step leaves with HLT_ADDR as the next PC, no register value and no
\* memory byte changed, and one lock less on rd
HaltsUnlocking(rd) ==
  /\ next_program_counter' = HLT_ADDR
  /\ Values(prog') = Values(prog) /\ Memories(prog') = Memories(prog)
  /\ prog'.registers[rd].write_cnt = prog.registers[rd].write_cnt - 1

\* C18: a load that starts inside a readable VMA and whose last byte lies
\* past the end of that VMA returns the bytes up to the end and, as remaining
\* length, the number of bytes past the end, which is not 0; a load
\* instruction in Memory with such an access halts with HLT_ADDR, does not
\* write rd and releases its lock on rd. Both also when the next VMA is
\* adjacent and readable: the ld 4 bytes below the data VMA leaves x9 = 7.
C18_LoadAcrossBound ==
  [][/\ (Loads /\ FindVma(prog.vmas, call'.addr) # 0) =>
          LET vma == Holds(prog.vmas, call'.addr)
              start == NatOf(call'.addr) - NatOf(vma.lower_bound)
              past == NatOf(call'.addr) + call'.sz -
                      (NatOf(vma.lower_bound) + NatOf(vma.size))
          IN  (vma.readable /\ past > 0) =>
                call'.ret =
                  Some(<<SubSeq(vma.memory, start + 1, Len(vma.memory)), past>>)
     /\ (~Pipelined /\ at = "advance" /\ CrossingLoad(loop_inst[1])) =>
          HaltsUnlocking(loop_inst[1].code.a) /\ at' = "update_pc"
     /\ (/\ Pipelined /\ at = "memory"
         /\ pipeline[StageAsUsize("Memory")] # None
         /\ CrossingLoad(pipeline[StageAsUsize("Memory")][1])) =>
          /\ HaltsUnlocking(pipeline[StageAsUsize("Memory")][1].code.a)
          /\ pipeline'[StageAsUsize("Writeback")] = None
     /\ (Images[elf] = CrossLoadAdjacent /\ at' = "done") =>
          /\ prog'.registers[9].value = U64Of(7)
          /\ prog'.registers[9].write_cnt = 0]_vars

\* C18 is exercised: the pipelined run of the ld that begins 4 bytes below the
\* data VMA has halted with the warning, x9 = 7 and no lock on x9.
C18_Witness ==
  /\ Pipelined /\ Halted /\ Images[elf] = CrossLoadAdjacent
  /\ Said("Warning", "Access memory across VMAs")
  /\ Value(9) = U64Of(7) /\ WriteCnt(9) = 0

\* the store instruction inst, in Memory, writes from inside a VMA past its end
CrossingStore(inst) ==
  /\ inst.stage = "Memory" /\ inst.code.op \in StoreOps
  /\ FindVma(prog.vmas, inst.val_e) # 0
  /\ LET vma == Holds(prog.vmas, inst.val_e)
     IN  NatOf(inst.val_e) + StoreWidth(inst.code.op) >
           NatOf(vma.lower_bound) + NatOf(vma.size)

\* C19: a store instruction whose byte range spans a VMA boundary is an error
\* of the core: its Memory stage returns HLT_ADDR, also when the range goes on
\* into an adjacent writable VMA.
C19_StoreAcrossBound ==
  [][/\ (~Pipelined /\ at = "advance" /\ CrossingStore(loop_inst[1])) =>
          next_program_counter' = HLT_ADDR
     /\ (/\ Pipelined /\ at = "memory"
         /\ pipeline[StageAsUsize("Memory")] # None
         /\ CrossingStore(pipeline[StageAsUsize("Memory")][1])) =>
          next_program_counter' = HLT_ADDR]_vars

\* [addr, addr + len) lies inside one VMA that is readable and writable
InsideOneRW(vmas, addr, len) ==
  /\ FindVma(vmas, addr) # 0
  /\ LET vma == Holds(vmas, addr)
     IN  /\ vma.readable /\ vma.writeble
         /\ NatOf(addr) + len <= NatOf(vma.lower_bound) + NatOf(vma.size)

\* the byte at address n of the address space, None where nothing is mapped
ByteAt(vmas, n) ==
  LET i == FindVma(vmas, U64Of(n))
  IN  IF i = 0 THEN None
      ELSE Some(vmas[i].memory[n - NatOf(vmas[i].lower_bound) + 1])

\* the addresses the memory calls can reach
Touched ==
  {n \in 0..1023 : \E a \in MemAddrs : n \in NatOf(a)..(NatOf(a) + 15)}

\* C20: when [a, a + len) lies inside one readable and writable VMA,
\* store(a, bytes) returns true and leaves every byte outside [a, a + len)
\* unchanged, and a load(a, len, false) that follows it immediately returns
\* exactly bytes with remaining length 0.
C20_StoreLoadRoundTrip ==
  [][/\ (Stores /\ InsideOneRW(prog.vmas, call'.addr, Len(call'.data))) =>
          /\ call'.ret = TRUE
          /\ \A n \in Touched :
               ByteAt(prog'.vmas, n) =
                 IF n \in NatOf(call'.addr)..
                            (NatOf(call'.addr) + Len(call'.data) - 1)
                 THEN Some(call'.data[n - NatOf(call'.addr) + 1])
                 ELSE ByteAt(prog.vmas, n)
          /\ [i \in DOMAIN prog'.vmas |-> [prog'.vmas[i] EXCEPT !.memory = <<>>]]
               = [i \in DOMAIN prog.vmas |-> [prog.vmas[i] EXCEPT !.memory = <<>>]]
     /\ (/\ Loads /\ call # None /\ call.op = "mem_store"
         /\ InsideOneRW(prog.vmas, call.addr, Len(call.data))
         /\ call'.addr = call.addr /\ call'.sz = Len(call.data)
         /\ ~call'.execute) =>
          call'.ret = Some(<<call.data, 0>>)]_vars

\* C20 is exercised: a load of 8 bytes at the start of the first readable and
\* writable VMA has returned the 8 bytes a store put there, remaining 0.
C20_Witness ==
  /\ call # None /\ call.op = "mem_load" /\ call.stores = 1
  /\ call.addr = U64Of(256) /\ call.sz = 8 /\ ~call.execute
  /\ call.ret = Some(<<StoreData(8), 0>>)

\* an instruction at the configured start PC has been fetched
StartFetched ==
  \E i \in Fetched : stdout[i].addr = StartPc(prog, cli.count_from_main)

\* the Fetch step, which ends the cycle and counts it
EndsCycle == Pipelined /\ at = "fetch" /\ at' = "cycle_head"

\* C21: in the pipelined driver CPI collection starts in the first cycle in
\* which an instruction at the start PC is fetched: that cycle and every cycle
\* after it is counted, also when that instruction is a taken branch.
C21_CollectionStartsAtFetch ==
  [][(EndsCycle /\ StartFetched') =>
       start_cpi_collection' /\ cycles' = cycles + 1]_vars

\* the Decode step finds in the Decode slot, with the Execute slot free, an
\* instruction one of whose source registers cannot be read
DecodeStalls ==
  /\ Pipelined /\ at = "decode"
  /\ pipeline[StageAsUsize("Decode")] # None
  /\ pipeline[StageAsUsize("Execute")] = None
  /\ LET srcs == SrcRegs(pipeline[StageAsUsize("Decode")][1].code)
     IN  \E k \in DOMAIN srcs : RegRead(prog.registers, srcs[k]) = None

\* C22: in the pipelined driver every cycle in which the instruction in Decode
\* stalls on a source register keeps it in the Decode slot and adds one to the
\* data-hazard counter; addi x5,x0,1; add x6,x5,x5 without forwarding ends
\* with a data-hazard counter of at least 1.
C22_DecodeStallCounted ==
  /\ [][DecodeStalls =>
          /\ pipeline'[StageAsUsize("Decode")] = pipeline[StageAsUsize("Decode")]
          /\ data_hazards' = data_hazards + 1]_vars
  /\ []((Images[elf] = AddAfterAddi /\ Pipelined /\ ~cli.forward /\ Halted) =>
          data_hazards >= 1)

\* the operations that Execute completes in one cycle with a result for rd
AluOps ==
  (ROps \ (MulOps \cup DivOps)) \cup (IOps \ (LoadOps \cup {"Jalr"}))
    \cup {"Auipc", "Lui"}

\* the Decode step finds consumer c in the Decode slot while the instruction
\* in front of it, p, has gone from Execute to Memory in this cycle; both are
\* single-cycle ALU instructions, c reads the destination of p and no other
\* register that is locked
ReadsPreceding(c, p) ==
  /\ Pipelined /\ cli.forward /\ at = "decode" /\ head # None
  /\ c.code.op \in AluOps /\ p.code.op \in AluOps
  /\ head.pipeline[StageAsUsize("Execute")] # None
  /\ head.pipeline[StageAsUsize("Execute")][1].pc = p.pc
  /\ p.stage = "Memory" /\ p.code.a # X0
  /\ \E k \in DOMAIN SrcRegs(c.code) : SrcRegs(c.code)[k] = p.code.a
  /\ \A k \in DOMAIN SrcRegs(c.code) :
        \/ SrcRegs(c.code)[k] = p.code.a
        \/ SrcRegs(c.code)[k] = X0
        \/ WriteCnt(SrcRegs(c.code)[k]) = 0

\* C23: with forwarding enabled, a single-cycle ALU instruction that reads the
\* destination of the single-cycle ALU instruction immediately in front of it
\* leaves Decode in the cycle in which its producer executes, without a stall,
\* with the producer's result as its operand; addi x5,x0,1; add x6,x5,x5 never
\* keeps an instruction in Decode and ends with x6 = 2.
C23_ForwardedWithoutStall ==
  /\ [][(/\ pipeline[StageAsUsize("Decode")] # None
         /\ pipeline[StageAsUsize("Memory")] # None
         /\ ReadsPreceding(pipeline[StageAsUsize("Decode")][1],
                           pipeline[StageAsUsize("Memory")][1])) =>
          LET c == pipeline[StageAsUsize("Decode")][1]
              p == pipeline[StageAsUsize("Memory")][1]
          IN  /\ pipeline'[StageAsUsize("Decode")] = None
              /\ pipeline'[StageAsUsize("Execute")] # None
              /\ SameInst(Leaving, c) /\ Leaving.stage = "Execute"
              /\ \A k \in DOMAIN SrcRegs(c.code) :
                    SrcRegs(c.code)[k] = p.code.a =>
                      Operands(Leaving)[k] = p.val_e
              /\ data_hazards' = data_hazards]_vars
  /\ [][(/\ Images[elf] = AddAfterAddi /\ Pipelined /\ cli.forward
         /\ at = "decode" /\ pipeline[StageAsUsize("Decode")] # None) =>
          pipeline'[StageAsUsize("Decode")] = None]_vars
  /\ []((Images[elf] = AddAfterAddi /\ Pipelined /\ cli.forward /\ Halted) =>
          Value(6) = U64Of(2) /\ data_hazards = 0)

\* C23 is exercised: with forwarding, the add has entered Execute with both
\* operands 1 in the cycle in which the addi in front of it went to Memory,
\* the second cycle after its own fetch.
C23_Witness ==
  /\ Images[elf] = AddAfterAddi /\ Pipelined /\ cli.forward /\ at = "fetch"
  /\ cycles = 0 /\ Cardinality(Fetched) = 2
  /\ head.pipeline[StageAsUsize("Decode")] # None
  /\ head.pipeline[StageAsUsize("Decode")][1].code.op = "Add"
  /\ pipeline[StageAsUsize("Execute")] # None
  /\ pipeline[StageAsUsize("Execute")][1].code.op = "Add"
  /\ pipeline[StageAsUsize("Execute")][1].val1 = One64
  /\ pipeline[StageAsUsize("Execute")][1].val2 = One64
  /\ pipeline[StageAsUsize("Memory")] # None
  /\ pipeline[StageAsUsize("Memory")][1].code.op = "Addi"
  /\ WriteCnt(5) = 1 /\ Value(5) = Zero64

\* C24: in the pipelined driver a mul or mulh in the Execute slot goes to the
\* mul_phase2 slot in the Execute step that finds it, and an instruction in
\* the mul_phase2 slot goes to Memory in the Execute-Mult step that finds it,
\* with its result computed and forwarded in that step: one cycle in each
\* slot, no wait in mul_phase2.
C24_MulTakesTwoCycles ==
  [][/\ (/\ Pipelined /\ at = "execute"
         /\ pipeline[StageAsUsize("Execute")] # None
         /\ pipeline[StageAsUsize("Execute")][1].code.op \in MulOps) =>
          /\ pipeline[StageAsUsize("Execute")][1].progress = 0
          /\ execute_mult = None
          /\ pipeline'[StageAsUsize("Execute")] = None
          /\ execute_mult' =
               Some([pipeline[StageAsUsize("Execute")][1] EXCEPT !.progress = 1])
          /\ prog' = prog
     /\ (Pipelined /\ at = "execute_mult" /\ execute_mult # None) =>
          LET inst == execute_mult[1]
              rd == inst.code.a
              result == IF inst.code.op = "Mul" THEN WMul(inst.val1, inst.val2)
                        ELSE AluValue(inst)
          IN  /\ inst.code.op \in MulOps /\ inst.progress = 1
              /\ pipeline[StageAsUsize("Memory")] = None
              /\ execute_mult' = None
              /\ pipeline'[StageAsUsize("Memory")] =
                   Some([inst EXCEPT !.stage = "Memory", !.val_e = result])
              /\ cli.forward =>
                   prog'.registers[rd].forward_values = Some(result)
              /\ Values(prog') = Values(prog)]_vars

\* C24 is exercised: a mul that was in the Execute slot two cycle heads ago is
\* now in the Memory slot with its product, forwarded to the add in Decode.
C24_Witness ==
  /\ Pipelined /\ cli.forward /\ at = "execute" /\ head # None
  /\ head.execute_mult # None /\ head.execute_mult[1].code.op = "Mul"
  /\ execute_mult = None
  /\ pipeline[StageAsUsize("Memory")] # None
  /\ SameInst(pipeline[StageAsUsize("Memory")][1], head.execute_mult[1])
  /\ pipeline[StageAsUsize("Memory")][1].val_e = U64Of(9)
  /\ prog.registers[6].forward_values = Some(U64Of(9))

\* a division or remainder whose divisor, all of val2 or its low half for the
\* word forms, is not 0
Divides(inst) ==
  /\ inst.code.op \in DivOps /\ inst.val2 # Zero64
  /\ inst.code.op \in {"Divw", "Remw"} => W32(inst.val2) # WordOf(0, 4)

\* what the Execute step does to a division in the Execute slot, and how an
\* instruction enters that slot
DivisionSteps ==
  /\ (/\ Pipelined /\ at = "execute"
      /\ pipeline[StageAsUsize("Execute")] # None
      /\ Divides(pipeline[StageAsUsize("Execute")][1])) =>
       LET inst == pipeline[StageAsUsize("Execute")][1]
       IN  IF inst.progress < 39
           THEN /\ pipeline'[StageAsUsize("Execute")] =
                     Some([inst EXCEPT !.progress = @ + 1])
                /\ pipeline'[StageAsUsize("Memory")] =
                     pipeline[StageAsUsize("Memory")]
                /\ prog' = prog
           ELSE /\ inst.progress = 39
                /\ pipeline[StageAsUsize("Memory")] = None
                /\ pipeline'[StageAsUsize("Execute")] = None
                /\ pipeline'[StageAsUsize("Memory")] =
                     Some([inst EXCEPT !.stage = "Memory",
                                       !.val_e = AluValue(inst)])
  /\ DecodeLeaves => Leaving.progress = 0

\* the Decode step leaves the Decode slot as it is, takes no lock and puts
\* nothing into the Execute slot
DecodeHeld ==
  /\ pipeline'[StageAsUsize("Decode")] = pipeline[StageAsUsize("Decode")]
  /\ pipeline'[StageAsUsize("Execute")] = pipeline[StageAsUsize("Execute")]
  /\ prog' = prog

\* C25 as stated: a div, divw, rem or remw with a non-zero divisor is in the
\* Execute slot at the head of exactly 40 consecutive cycles, with progress 0
\* to 39, and enters Memory in the 40th; in each of these 40 cycles no other
\* instruction enters Execute and the instruction in Decode stays there
\* without taking a lock.
C25_DivisionBlocksFortyCycles ==
  [][/\ DivisionSteps
     /\ (/\ Pipelined /\ at = "decode" /\ head # None
         /\ head.pipeline[StageAsUsize("Execute")] # None
         /\ Divides(head.pipeline[StageAsUsize("Execute")][1])) =>
          DecodeHeld]_vars

\* C25, amended: a div, divw, rem or remw with a non-zero divisor enters the
\* Execute slot with progress 0, every Execute step that finds it there with
\* progress below 39 adds one to its progress and keeps it, and the step that
\* finds it with progress 39 moves it to Memory with its result: 40 cycles,
\* unless the failed load or store of an older instruction flushes it first.
\* While it is in the Execute slot, that is in the first 39 of these cycles,
\* no other instruction enters Execute and the instruction in Decode stays
\* there without taking a lock.
C25_DivisionTakesFortyCycles ==
  [][/\ DivisionSteps
     /\ (/\ Pipelined /\ at = "decode"
         /\ pipeline[StageAsUsize("Execute")] # None
         /\ Divides(pipeline[StageAsUsize("Execute")][1])) =>
          DecodeHeld]_vars

\* C25 is exercised: the div of -7 by 2 was in Execute with progress 39 at the
\* head of this cycle and is now in Memory with -3, and the remw behind it has
\* entered Execute in the same cycle.
C25_Witness ==
  /\ Pipelined /\ at = "fetch" /\ head # None
  /\ head.pipeline[StageAsUsize("Execute")] # None
  /\ head.pipeline[StageAsUsize("Execute")][1].code.op = "Div"
  /\ head.pipeline[StageAsUsize("Execute")][1].progress = 39
  /\ pipeline[StageAsUsize("Memory")] # None
  /\ pipeline[StageAsUsize("Memory")][1].code.op = "Div"
  /\ pipeline[StageAsUsize("Memory")][1].val_e = WSub(Zero64, U64Of(3))
  /\ pipeline[StageAsUsize("Execute")] # None
  /\ pipeline[StageAsUsize("Execute")][1].code.op = "Remw"
  /\ pipeline[StageAsUsize("Execute")][1].progress = 0

\* Inst::advance has just been called on an instruction in stage st
Advanced(st) ==
  call' # call /\ call'.op = "advance" /\ call'.inst.stage = st

\* the high 64 bits of the product of v1 and v2 as two's-complement numbers:
\* both sign-extended to 128 bits, multiplied modulo 2^128
SignedHigh(v1, v2) ==
  SubSeq(MulBytes(SExt(v1, 16), SExt(v2, 16), 1, 0, 16), 9, 16)

\* C26: mulh writes to val_e the high 64 bits of the signed 128-bit product
\* of val1 and val2, for all val1 and val2; for val1 = 2^64 - 1 and val2 = 1
\* that is 2^64 - 1.
C26_MulhSignedHigh ==
  [][(Advanced("Execute") /\ call'.inst.code.op = "Mulh") =>
       /\ call'.tag = "Ok" /\ call'.ret.stage = "Memory"
       /\ call'.ret.val_e = SignedHigh(call'.inst.val1, call'.inst.val2)]_vars

\* srlw and sraw as specified: the low 32 bits of v1 shifted right by the low
\* 5 bits of v2, zeros or copies of bit 31 coming in, sign-extended to 64 bits
ShiftRightWord(op, v1, v2) ==
  IF op = "Srlw" THEN SExt(WShrU(Trunc(v1, 4), LowBits(v2, 5)), 8)
  ELSE SExt(WShrS(Trunc(v1, 4), LowBits(v2, 5)), 8)

\* C27: srlw computes the logical and sraw the arithmetic right shift of the
\* low 32 bits of val1 by (val2 & 0x1F), sign-extended from 32 to 64 bits, for
\* all val1 and val2.
C27_WordRightShifts ==
  [][(Advanced("Execute") /\ call'.inst.code.op \in {"Srlw", "Sraw"}) =>
       /\ call'.tag = "Ok" /\ call'.ret.stage = "Memory"
       /\ call'.ret.val_e =
            ShiftRightWord(call'.inst.code.op, call'.inst.val1,
                           call'.inst.val2)]_vars

\* the load of a fetch as specified: from a mapped address, in a VMA that is
\* readable or executable, with 4 bytes up to the end of the VMA
CanFetch(vmas, pc) ==
  /\ FindVma(vmas, pc) # 0
  /\ LET vma == Holds(vmas, pc)
     IN  /\ vma.readable \/ vma.executable
         /\ NatOf(pc) + 4 <= NatOf(vma.lower_bound) + NatOf(vma.size)

\* the word at pc
WordAt(vmas, pc) ==
  LET vma == Holds(vmas, pc)
      start == NatOf(pc) - NatOf(vma.lower_bound)
  IN  SubSeq(vma.memory, start + 1, start + 4)

\* the operation that the decoder makes of a word
Decoded(word) ==
  parse(word[1] + 256 * word[2], word[3] + 256 * word[4])[1].op

\* C28: a Fetch whose word decodes to an unknown, unsupported or unimplemented
\* operation, or that cannot read four bytes at the PC, returns HLT_ADDR and
\* changes no register value, lock counter or memory byte, and its
\* instruction does not go on to Decode.
C28_IllegalFetchHalts ==
  [][(/\ Advanced("Fetch")
      /\ \/ ~CanFetch(prog.vmas, prog.program_counter)
         \/ Decoded(WordAt(prog.vmas, prog.program_counter))
              \in FetchIllegalOps) =>
       /\ call'.tag = "Err" /\ call'.pc = HLT_ADDR
       /\ prog' = prog]_vars

\* C29: an ecall takes no register lock; in Execute it returns HLT_ADDR when
\* a7 is one of 57, 62, 63, 64, 80, 93, 214, otherwise returns HLT_ADDR when
\* a0 = 10, goes on to Memory when a0 = 1 and returns HLT_ADDR for every other
\* a0; the ecall that goes on retires to pc + 4, and the run continues with
\* the instruction behind it.
C29_EcallDispatch ==
  /\ [][/\ (Advanced("Decode") /\ call'.inst.code.op = "Ecall") =>
             (/\ call'.tag = "Ok" /\ prog' = prog
              /\ (\A R \in {X10, X11, X17} :
                    prog.registers[R].write_cnt = 0) =>
                   (/\ call'.ret.stage = "Execute"
                    /\ call'.ret.val1 = prog.registers[X10].value
                    /\ call'.ret.val_e = prog.registers[X17].value))
        /\ (Advanced("Execute") /\ call'.inst.code.op = "Ecall") =>
             (LET a7 == call'.inst.val_e
                  a0 == call'.inst.val1
                  halts == /\ call'.tag = "Err" /\ call'.pc = HLT_ADDR
              IN  /\ prog' = prog
                  /\ IF \E n \in {57, 62, 63, 64, 80, 93, 214} : a7 = U64Of(n)
                     THEN halts
                     ELSE IF a0 = U64Of(10) THEN halts
                     ELSE IF a0 = U64Of(1)
                     THEN call'.tag = "Ok" /\ call'.ret.stage = "Memory"
                     ELSE halts)
        /\ (Advanced("Memory") /\ call'.inst.code.op = "Ecall") =>
             (call'.tag = "Ok" /\ call'.ret.stage = "Writeback" /\ prog' = prog)
        /\ (Advanced("Writeback") /\ call'.inst.code.op = "Ecall") =>
             (/\ call'.tag = "Err" /\ call'.pc = WAdd(call'.inst.pc, U64Of(4))
              /\ prog' = prog)]_vars
  /\ []((Images[elf] = EcallPrint /\ Halted) =>
          (/\ Value(5) = One64 /\ Said("Debug", "ecall (a0=1), print a1")
           /\ \A R \in DOMAIN prog.registers : WriteCnt(R) = 0))

\* C29 is exercised: the pipelined run of addi x10,x0,1; ecall; addi x5,x0,1
\* has printed a1, gone on behind the ecall and halted with x5 = 1.
C29_Witness ==
  /\ Images[elf] = EcallPrint /\ Pipelined /\ Halted
  /\ Said("Debug", "ecall (a0=1), print a1")
  /\ Value(5) = One64 /\ Value(10) = One64

\* the operation RV64 assigns to a shift-immediate encoding: imm[11:6] is
\* 000000 for slli and srli and 010000 for srai, imm[11:5] is 0000000 for
\* slliw and srliw and 0100000 for sraiw, and anything else is no operation
ShiftImmediate(opcode, func3, u12) ==
  LET hi6 == u12 \div 64
      hi7 == u12 \div 32
  IN  CASE opcode = 19 /\ func3 = 1 /\ hi6 = 0 -> "Slli"
        [] opcode = 19 /\ func3 = 5 /\ hi6 = 0 -> "Srli"
        [] opcode = 19 /\ func3 = 5 /\ hi6 = 16 -> "Srai"
        [] opcode = 27 /\ func3 = 1 /\ hi7 = 0 -> "Slliw"
        [] opcode = 27 /\ func3 = 5 /\ hi7 = 0 -> "Srliw"
        [] opcode = 27 /\ func3 = 5 /\ hi7 = 32 -> "Sraiw"
        [] OTHER -> "Unknown"

\* the decoder has returned from a word of opcode 0x13 or 0x1B with funct3
\* 1 or 5
ParsedShift ==
  /\ call' # call /\ call'.op = "parse"
  /\ F_opcode(call'.first) \in {19, 27} /\ F_func3(call'.first) \in {1, 5}

\* C30: the decoder yields a shift-immediate operation only when the reserved
\* upper immediate bits are those of RV64 (imm[11:6] = 000000 for slli and
\* srli, 010000 for srai; imm[11:5] = 0000000 for slliw and srliw, 0100000
\* for sraiw); every other immediate under these opcodes and funct3 values
\* decodes to Unknown(raw).
C30_ShiftImmediateReservedBits ==
  [][ParsedShift =>
       (LET code == call'.ret[1]
            want == ShiftImmediate(F_opcode(call'.first), F_func3(call'.first),
                                   F_imm12(call'.second))
        IN  /\ code.op = want
            /\ (want = "Unknown") => (code.raw = <<call'.first, call'.second>>)
            /\ (want # "Unknown") =>
                 (/\ code.a = 5 /\ code.b = 6
                  /\ code.c = SignExtend(F_imm12(call'.second), 12)))]_vars

\* bits lo..hi of a 16-bit word
Field(raw, lo, hi) == (raw \div Pow2(lo)) % Pow2(hi - lo + 1)

\* the uncompressed operation of the RVC encodings c.addi4spn, c.lw, c.ld,
\* c.sw, c.sd, c.nop, c.addi, c.addiw and c.li, and the refusal of c.fld and
\* c.fsd; None for the words outside these forms
Expansion(raw) ==
  LET quadrant == raw % 4
      func3 == raw \div 8192
      rdp == Field(raw, 2, 4) + 8
      rs1p == Field(raw, 7, 9) + 8
      rd == Field(raw, 7, 11)
      nzuimm == 64 * Field(raw, 7, 10) + 16 * Field(raw, 11, 12)
                  + 4 * Field(raw, 6, 6) + 8 * Field(raw, 5, 5)
      uimmw == 8 * Field(raw, 10, 12) + 4 * Field(raw, 6, 6)
                 + 64 * Field(raw, 5, 5)
      uimmd == 8 * Field(raw, 10, 12) + 64 * Field(raw, 5, 6)
      imm6 == SignExtend(Field(raw, 2, 6) + 32 * Field(raw, 12, 12), 6)
      Illegal == [op |-> "IllegalCf", a |-> 0, b |-> 0, c |-> 0, raw |-> <<raw>>]
  IN  CASE quadrant = 0 /\ func3 = 0 /\ nzuimm # 0 -> Code3("Addi", rdp, 2, nzuimm)
        [] quadrant = 0 /\ func3 = 1 -> Illegal
        [] quadrant = 0 /\ func3 = 2 -> Code3("Lw", rdp, rs1p, uimmw)
        [] quadrant = 0 /\ func3 = 3 -> Code3("Ld", rdp, rs1p, uimmd)
        [] quadrant = 0 /\ func3 = 5 -> Illegal
        [] quadrant = 0 /\ func3 = 6 -> Code3("Sw", rs1p, rdp, uimmw)
        [] quadrant = 0 /\ func3 = 7 -> Code3("Sd", rs1p, rdp, uimmd)
        [] quadrant = 1 /\ func3 = 0 /\ raw = 1 -> Code3("Addi", 0, 0, 0)
        [] quadrant = 1 /\ func3 = 0 /\ rd # 0 /\ imm6 # 0 ->
             Code3("Addi", rd, rd, imm6)
        [] quadrant = 1 /\ func3 = 1 /\ rd # 0 -> Code3("Addiw", rd, rd, imm6)
        [] quadrant = 1 /\ func3 = 2 /\ rd # 0 -> Code3("Addi", rd, 0, imm6)
        [] OTHER -> None

\* the decoder has returned from a word whose low two bits are not 11
ParsedCompressed ==
  /\ call' # call /\ call'.op = "parse" /\ call'.first % 4 # 3

\* C31: for a 16-bit word whose low two bits are not 11 the decoder returns
\* length 16, expands c.addi4spn, c.lw, c.ld, c.sw, c.sd, c.addi, c.addiw,
\* c.li and c.nop (0x0001, to addi x0,x0,0) to the equivalent uncompressed
\* operation, and returns the floating-point refusal for c.fld and c.fsd.
C31_CompressedExpansion ==
  [][ParsedCompressed =>
       (/\ call'.ret[2] = 16
        /\ (Expansion(call'.first) # None) =>
             (call'.ret[1] = Expansion(call'.first)))]_vars

\* a source register that read refuses: it has a writer pending and no
\* forwarded value to hand out
NotReady(regs, id) ==
  /\ id # X0 /\ regs[id].write_cnt > 0
  /\ ~(regs[id].enable_forwarding /\ regs[id].forward_values # None)

\* the register file after exactly one lock of rd, nothing else touched
OneMoreWriter(regs, rd) ==
  [R \in DOMAIN regs |->
     IF R = rd THEN [regs[R] EXCEPT !.write_cnt = regs[R].write_cnt + 1]
     ELSE regs[R]]

\* C32: an advance call in Decode that stalls on a not-ready source leaves the
\* instruction (stage, progress, operands) and the whole register file
\* unchanged and takes no lock; a Decode that succeeds adds exactly one to the
\* write-pending counter of rd for operations with a destination and changes
\* no counter for stores, branches and ecall.  Decode stalls exactly when one
\* of its sources is not ready.
C32_DecodeLocksOnce ==
  /\ [][Advanced("Decode") =>
          (LET inst == call'.inst
               ret == call'.ret
               srcs == SrcRegs(inst.code)
               stalls == \E k \in DOMAIN srcs : NotReady(prog.registers, srcs[k])
           IN  /\ call'.tag = "Ok"
               /\ stalls => (ret = inst /\ prog' = prog)
               /\ (~stalls) =>
                    (/\ ret.stage = "Execute" /\ ret.progress = inst.progress
                     /\ ret.code = inst.code
                     /\ prog'.vmas = prog.vmas
                     /\ prog'.registers =
                          IF HasRd(inst.code)
                          THEN OneMoreWriter(prog.registers, inst.code.a)
                          ELSE prog.registers))]_vars
  /\ [][DecodeStalls =>
          (/\ pipeline'[StageAsUsize("Decode")] = pipeline[StageAsUsize("Decode")]
           /\ prog' = prog)]_vars
  /\ [][DecodeLeaves =>
          (/\ Leaving.stage = "Execute"
           /\ prog'.registers =
                IF HasRd(Leaving.code)
                THEN OneMoreWriter(prog.registers, Leaving.code.a)
                ELSE prog.registers)]_vars

\* C32 is exercised: Decode was called on an add whose sources were ready and
\* whose destination already had a writer pending, and the counter of the
\* destination is now 2.
C32_Witness ==
  /\ call # None /\ call.op = "advance" /\ call.inst.stage = "Decode"
  /\ call.inst.code = Code3("Add", 7, 5, 6) /\ call.ret.stage = "Execute"
  /\ prog.registers[7].write_cnt = 2
  /\ \A R \in DOMAIN prog.registers \ {7} : prog.registers[R].write_cnt = 0

\* the instruction that the sequential driver is advancing holds the lock of
\* its destination: it has completed Decode and not yet retired or aborted
SeqHolder(R) ==
  /\ ~Pipelined /\ loop_inst # None
  /\ loop_inst[1].stage \in {"Execute", "Memory", "Writeback"}
  /\ HasRd(loop_inst[1].code) /\ loop_inst[1].code.a = R

\* the step about to be taken panics in Register::unlock
UnlockMismatch ==
  \/ /\ Pipelined /\ at = "writeback"
     /\ \E R \in DOMAIN prog.registers :
           /\ Writers(<<pipeline[StageAsUsize("Writeback")]>>, R) = 1
           /\ WriteCnt(R) = 0
  \/ /\ Pipelined /\ at \in {"memory", "execute"}
     /\ \E R \in DOMAIN prog.registers :
           /\ Writers(<<pipeline[StageAsUsize("Memory")],
                        pipeline[StageAsUsize("Execute")]>>, R) >= 1
           /\ WriteCnt(R) = 0
  \/ /\ at = "advance"
     /\ \E R \in DOMAIN prog.registers : SeqHolder(R) /\ WriteCnt(R) = 0

\* C33: in neither driver is unlock called on a register whose write-pending
\* counter is 0: every instruction that is past Decode and has a destination
\* (so every instruction that unlocks at Writeback, at a division by zero or
\* at a failed load) took the lock of that destination and still holds it, so
\* the counter is at least the number of such instructions.
C33_UnlockNeverUnderflows ==
  /\ [](Pipelined =>
          \A R \in DOMAIN prog.registers :
             WriteCnt(R) >= Writers(PastDecode, R))
  /\ [](\A R \in DOMAIN prog.registers : SeqHolder(R) => (WriteCnt(R) >= 1))
  /\ [](~UnlockMismatch)

\* C33 is exercised: the Writeback step of this cycle has retired an
\* instruction with a destination other than x0, whose one lock the unlock
\* has taken off, and no other writer of that register is in flight.
C33_Witness ==
  /\ Pipelined /\ at = "memory" /\ head # None
  /\ head.pipeline[StageAsUsize("Writeback")] # None
  /\ pipeline[StageAsUsize("Writeback")] = None
  /\ LET inst == head.pipeline[StageAsUsize("Writeback")][1]
     IN  /\ HasRd(inst.code) /\ inst.code.a # X0
         /\ Writers(PastDecode, inst.code.a) = 0
         /\ WriteCnt(inst.code.a) = 0

\* the instruction in the Decode slot
InDecode == pipeline[StageAsUsize("Decode")][1]

\* an instruction is in Decode behind a jal, a jalr or a branch that will be
\* taken and is still in Execute: it was fetched from the fall-through path
WrongPath ==
  /\ Pipelined
  /\ pipeline[StageAsUsize("Execute")] # None
  /\ pipeline[StageAsUsize("Decode")] # None
  /\ \/ InExecute.code.op \in {"Jal", "Jalr"}
     \/ /\ InExecute.code.op \in BranchOps
        /\ BranchTaken(InExecute.code.op, InExecute.val1, InExecute.val2)

\* C34: an instruction fetched from the wrong path of a jal, a jalr or a taken
\* branch never acquires a lock, forwards a value or writes a register or
\* memory: as long as the transfer is in Execute it stays in the Decode slot
\* as it was fetched, no Decode step is performed on it, it never enters
\* Execute, and the flush that drops it finds it in the Decode slot in stage
\* Decode, so a control-hazard flush drops no instruction that holds a lock.
C34_WrongPathNeverDecoded ==
  /\ [](WrongPath =>
          /\ InDecode.stage = "Decode" /\ InDecode.progress = 0
          /\ Operands(InDecode) = <<Zero64, Zero64, Zero64>>
          /\ pipeline[StageAsUsize("Fetch")] = None)
  /\ [][(WrongPath /\ at = "decode") =>
          (/\ at' = "fetch"
           /\ UNCHANGED <<pipeline, execute_mult, prog, data_hazards, stdout>>)]_vars
  /\ [][(WrongPath /\ at # "execute") =>
          (pipeline'[StageAsUsize("Decode")] = pipeline[StageAsUsize("Decode")])]_vars
  /\ [][(WrongPath /\ at = "execute") =>
          (\/ /\ Resolves
              /\ pipeline'[StageAsUsize("Decode")] = None
              /\ pipeline'[StageAsUsize("Execute")] = None
              /\ \A R \in DOMAIN prog.registers :
                    /\ prog'.registers[R].write_cnt = WriteCnt(R)
                    /\ prog'.registers[R].value = Value(R)
              /\ prog'.vmas = prog.vmas
           \/ /\ ~Resolves
              /\ pipeline' = pipeline /\ prog' = prog)]_vars

\* C34 is exercised: in the run of mul; beq +8; addi x7; addi x8 the beq waited
\* a cycle in Execute with the addi x7 behind it in Decode, and the Execute
\* step of this cycle has taken the branch and dropped the addi, which has
\* left no lock on x7.
C34_Witness ==
  /\ Pipelined /\ Images[elf] = MulThenBranch /\ at = "decode" /\ head # None
  /\ head.pipeline[StageAsUsize("Decode")] # None
  /\ head.pipeline[StageAsUsize("Decode")][1].pc = WAdd(CodeBase, U64Of(8))
  /\ head.pipeline[StageAsUsize("Execute")] # None
  /\ head.pipeline[StageAsUsize("Execute")][1].code.op = "Beq"
  /\ pipeline[StageAsUsize("Decode")] = None
  /\ pipeline[StageAsUsize("Execute")] = None
  /\ head.pipeline[StageAsUsize("Memory")] # None
  /\ head.pipeline[StageAsUsize("Memory")][1].code.op = "Mul"
  /\ next_program_counter = WAdd(CodeBase, U64Of(12))
  /\ WriteCnt(7) = 0 /\ Value(7) = Zero64

\* the last line up to line upto of stdout that tells of the fetch of inst, 0
\* when there is none
RECURSIVE LastFetchOf(_, _)
LastFetchOf(inst, upto) ==
  IF upto = 0 THEN 0
  ELSE IF stdout[upto] = Line("inst", inst.code.op, inst.pc) THEN upto
  ELSE LastFetchOf(inst, upto - 1)

\* the instructions of slots, youngest first, were fetched in the opposite
\* order: each has a fetch line before the fetch line of the one before it
RECURSIVE FetchedInOrder(_, _)
FetchedInOrder(slots, upto) ==
  IF slots = <<>> THEN TRUE
  ELSE IF Head(slots) = None THEN FetchedInOrder(Tail(slots), upto)
  ELSE LET line == LastFetchOf(Head(slots)[1], upto)
       IN  line > 0 /\ FetchedInOrder(Tail(slots), line - 1)

\* C35: in the pipelined driver instructions never overtake one another: the
\* instruction in a later slot (Writeback, Memory, mul_phase2, Execute, Decode
\* in that order) was fetched before the instruction in any earlier slot, at
\* every cycle boundary and all through the cycle, so that writebacks, loads
\* and stores take effect in program order; the load of sd x5,0(x28);
\* ld x6,0(x28) reads the bytes the store has written.
C35_NoOvertaking ==
  /\ [](Pipelined => FetchedInOrder(InFlight(pipeline, execute_mult), Len(stdout)))
  /\ []((Pipelined /\ Halted /\ Images[elf] = StoreThenLoad) =>
          (/\ Value(6) = U64Of(16)
           /\ ByteAt(prog.vmas, NatOf(DataBase)) = Some(16)))

\* C35 is exercised: at a cycle boundary the store of the scenario is in
\* Writeback with its bytes in memory, and the load behind it is in Memory,
\* about to read them.
C35_Witness ==
  /\ EndOfCycle /\ Images[elf] = StoreThenLoad
  /\ pipeline[StageAsUsize("Writeback")] # None
  /\ pipeline[StageAsUsize("Writeback")][1].code.op = "Sd"
  /\ pipeline[StageAsUsize("Memory")] # None
  /\ pipeline[StageAsUsize("Memory")][1].code.op = "Ld"
  /\ ByteAt(prog.vmas, NatOf(DataBase)) = Some(16)
  /\ Value(6) = Zero64

\* the registers the instruction in Decode is waiting for
AwaitedInDecode ==
  IF Pipelined /\ pipeline[StageAsUsize("Decode")] # None
  THEN {SrcRegs(InDecode.code)[k] : k \in DOMAIN SrcRegs(InDecode.code)}
         \cap {R \in DOMAIN prog.registers : NotReady(prog.registers, R)}
  ELSE {}

\* the library shim at the next PC is waiting for a0
ShimAwaits ==
  /\ Pipelined /\ IsLibrary(next_program_counter)
  /\ NotReady(prog.registers, X10)

\* the steps that the instructions past Decode have to take before all of
\* them have retired
OlderWork(pl, em) == WorkLeft([InFlight(pl, em) EXCEPT ![1] = None], 5)

SeqAdvances(st) ==
  /\ ~Pipelined /\ at = "advance" /\ loop_inst # None
  /\ loop_inst[1].stage = st

\* the advance calls, Fetch included, that take an operation to the end of
\* Writeback
CallsToRetire(op) ==
  IF op \in {"Div", "Divw", "Rem", "Remw"} THEN 44
  ELSE IF op \in {"Mul", "Mulh"} THEN 6
  ELSE 5

Handled == ROps \cup IOps \cup UOps \cup StoreOps \cup BranchOps \cup {"Ecall"}

\* the results of the decoder that are no operation to execute: unknown and
\* unsupported encodings and the unimplemented fence, CSR and system opcodes
Terminal ==
  {"Unknown", "UnknownC", "IllegalCf", "IllegalProlonged", "Fence", "FenceI",
   "Csrrw", "Csrrs", "Csrrc", "Csrrwi", "Csrrsi", "Csrrci", "Ebreak", "Uret",
   "Sret", "Mret", "Wfi", "SfenceVma"}

\* every instruction in flight is in the stage of its slot, the one in
\* mul_phase2 being a multiplication in Execute with progress 1
SlotsMatchStages ==
  /\ pipeline[StageAsUsize("Fetch")] = None
  /\ \A st \in {"Decode", "Execute", "Memory", "Writeback"} :
        pipeline[StageAsUsize(st)] # None =>
          (/\ pipeline[StageAsUsize(st)][1].stage = st
           /\ pipeline[StageAsUsize(st)][1].code.op \in Handled)
  /\ execute_mult # None =>
        (/\ execute_mult[1].stage = "Execute" /\ execute_mult[1].progress = 1
         /\ execute_mult[1].code.op \in MulOps)

StoreFails ==
  \/ /\ SeqAdvances("Memory") /\ loop_inst[1].code.op \in StoreOps
     /\ at' = "update_pc"
  \/ /\ Pipelined /\ at = "memory"
     /\ pipeline[StageAsUsize("Memory")] # None
     /\ pipeline[StageAsUsize("Memory")][1].code.op \in StoreOps
     /\ at' = "execute_mult"
     /\ pipeline'[StageAsUsize("Writeback")] = None

\* C39: when a store fails (mem_store returns false, and the store instruction
\* halts in Memory) no byte of any VMA has been modified, also when the range
\* starts in a writable VMA and runs into an unmapped or non-writable address.
C39_FailedStoreWritesNothing ==
  [][/\ (Stores /\ call'.ret = FALSE) => (prog'.vmas = prog.vmas)
     /\ StoreFails =>
          (next_program_counter' = HLT_ADDR /\ prog'.vmas = prog.vmas)]_vars

====
